---- MODULE Spec2Model ----
(***************************************************************************)
(* Model of the translation back end of ai-translator:                     *)
(*   - OpenAIService (translateText, _exceedsTokenLimit, _handleLargeText, *)
(*     _translateChunk, detectLanguage), server/src/services/openaiService *)
(*     as listed in src/README.md lines 132..436;                          *)
(*   - createTranslation, server/src/controllers/translationController.js. *)
(*                                                                         *)
(* Strings are run-length encoded: a string is a sequence of runs          *)
(* [c |-> piece, n |-> count], the piece repeated count times.  The pieces *)
(* "\n" and " " are the whitespace characters, "x" is a non-whitespace     *)
(* character of a source text; other pieces are atomic words (a translated *)
(* word, a language code, an error message, a clause of the system         *)
(* instruction).  Strings are                                              *)
(* kept normalised (adjacent runs have different pieces) so that equality  *)
(* of encodings is equality of strings.                                    *)
(***************************************************************************)
EXTENDS Integers, Sequences, FiniteSets, TLC

VARIABLES
  pc,                  \* the await the request is at, or "start" / "done"
  entry,               \* the operation called: createTranslation or translateText
  req,                 \* req.body and req.user.id (the arguments of translateText)
  detectedSourceLang,  \* createTranslation: detectedSourceLang
  chunks,              \* _handleLargeText: chunks
  translatedChunks,    \* _handleLargeText: translatedChunks
  calls,               \* the calls of openai.chat.completions.create, in issue order
  ret,                 \* what translateText returned or threw
  res,                 \* the answer of createTranslation
  store,               \* the rows of prisma.translation, in creation order
  nextId,              \* the number of ids uuid() has given out, plus one
  ops,                 \* the other controller requests: kind, user, params, pc, answer
  authToken,           \* client: localStorage 'auth_token'
  user,                \* client: the user state of AuthContext
  now,                 \* client: Date.now()
  refreshTimeoutId,    \* client: TokenManager.refreshTimeoutId
  timers,              \* client: the timers window.setTimeout has made
  logoutCalls,         \* client: how often logout has run
  pendingEffect,       \* client: the effect on [user] is due to run
  setupCalls,          \* client: the calls of setupTokenRefresh, in order
  initAuth,            \* client: where initAuth of AuthProvider is
  users                \* the rows of prisma.user, in creation order

\* the state of one createTranslation / translateText request
requestVars == <<pc, entry, req, detectedSourceLang, chunks, translatedChunks,
                 calls, ret, res>>
\* the state of the browser client
clientVars == <<authToken, user, now, refreshTimeoutId, timers, logoutCalls,
                pendingEffect, setupCalls, initAuth>>

vars == <<pc, entry, req, detectedSourceLang, chunks, translatedChunks,
          calls, ret, res, store, nextId, ops, authToken, user, now,
          refreshTimeoutId, timers, logoutCalls, pendingEffect, setupCalls,
          initAuth, users>>

----------------------------------------------------------------------------
(* Bounds of the model                                                     *)

\* longest source text, in runs
MaxRuns == 5

----------------------------------------------------------------------------
(* Program constants                                                       *)

\* Math.ceil(text.length / 3)
CharsPerToken == 3
\* estimatedTokens > 3000
TokenLimit == 3000
\* currentChunk.length + paragraph.length > 2500
ChunkLimit == 2500

----------------------------------------------------------------------------
(* Strings                                                                 *)

NL == "\n"
SP == " "
Whitespace == {NL, SP}

Run(c, n) == [c |-> c, n |-> n]
Word(w) == <<Run(w, 1)>>

\* the two-letter language codes the model uses; every other piece is one
\* character long as far as String.length is concerned
LangPieces == {"en", "EN", "es", "ES", "fr", "de", "ja", "zh", "it"}
PieceLen(c) == IF c \in LangPieces THEN 2 ELSE 1

IsWs(r) == r.c \in Whitespace

\* String.prototype.length
RECURSIVE Length(_)
Length(s) == IF s = <<>> THEN 0
             ELSE Head(s).n * PieceLen(Head(s).c) + Length(Tail(s))

\* a + b on strings, kept normalised
Cat(a, b) ==
  IF a = <<>> THEN b
  ELSE IF b = <<>> THEN a
  ELSE IF a[Len(a)].c = b[1].c
       THEN SubSeq(a, 1, Len(a) - 1)
            \o <<Run(b[1].c, a[Len(a)].n + b[1].n)>>
            \o Tail(b)
       ELSE a \o b

\* String.prototype.trim
Trim(s) ==
  LET keep == {i \in 1..Len(s) : ~IsWs(s[i])}
  IN IF keep = {} THEN <<>>
     ELSE LET lo == CHOOSE i \in keep : \A j \in keep : i <= j
              hi == CHOOSE i \in keep : \A j \in keep : i >= j
          IN SubSeq(s, lo, hi)

\* String.prototype.toLowerCase, on the pieces the model uses
LowerOf(c) == IF c = "EN" THEN "en" ELSE c
ToLowerCase(s) == [i \in 1..Len(s) |-> Run(LowerOf(s[i].c), s[i].n)]

ParagraphSeparator == <<Run(NL, 2)>>

\* Array.prototype.join('\n\n')
RECURSIVE Join(_)
Join(ss) == IF ss = <<>> THEN <<>>
            ELSE IF Len(ss) = 1 THEN ss[1]
            ELSE Cat(Cat(ss[1], ParagraphSeparator), Join(Tail(ss)))

\* where the regular expression /\n\s*\n/ matches when tried at run a: it
\* needs a newline at a, and (greedy \s*, backtracking to the last newline)
\* ends at the last newline that only whitespace separates from a
MatchEnds(s, a) ==
  {b \in a..Len(s) : /\ s[a].c = NL
                     /\ s[b].c = NL
                     /\ \A k \in a..b : IsWs(s[k])
                     /\ (b > a \/ s[a].n >= 2)}

Max(S) == CHOOSE x \in S : \A y \in S : x >= y
Min(S) == CHOOSE x \in S : \A y \in S : x <= y

\* text.split(/\n\s*\n/)
RECURSIVE Split(_)
Split(s) ==
  LET starts == {a \in 1..Len(s) : MatchEnds(s, a) # {}}
  IN IF starts = {} THEN <<s>>
     ELSE LET a == Min(starts)
              b == Max(MatchEnds(s, a))
          IN <<SubSeq(s, 1, a - 1)>> \o Split(SubSeq(s, b + 1, Len(s)))

----------------------------------------------------------------------------
(* JavaScript values of the request body                                   *)

Str(s) == [t |-> "string", s |-> s]
\* a field that is absent from the body
Undefined == [t |-> "undefined", s |-> <<>>]
\* a non-zero number: truthy, and not a string
Num == [t |-> "number", s |-> <<>>]

\* !v
Falsy(v) == v.t = "undefined" \/ (v.t = "string" /\ v.s = <<>>)

UndefinedOptions == [t |-> "undefined"]
\* an options object; the tone or style "" is a value that is absent or empty
Options(tone, style, pf) ==
  [t |-> "object", tone |-> tone, style |-> style, preserveFormatting |-> pf]

\* options.tone, options.style: "" when the object has no such property
OptionString(options, name) ==
  IF name \in DOMAIN options THEN options[name] ELSE ""
\* options.preserveFormatting as a condition
PreserveFormatting(options) ==
  IF "preserveFormatting" \in DOMAIN options THEN options.preserveFormatting
  ELSE FALSE

----------------------------------------------------------------------------
(* OpenAIService: the system instruction and the model parameters          *)

\* the strings of ss added up, from left to right
RECURSIVE CatAll(_)
CatAll(ss) == IF ss = <<>> THEN <<>> ELSE Cat(Head(ss), CatAll(Tail(ss)))

BaseInstruction(sourceLang, targetLang) ==
  CatAll(<<Word("You are a professional translator with expertise in "),
           sourceLang, Word(" and "), targetLang, Word(". "),
           Word("Translate the text from "), sourceLang, Word(" to "),
           targetLang,
           Word(", preserving the original meaning and context. ")>>)

NeutralTone == Word("Use a neutral tone. ")
\* switch(options.tone)
ToneClause(tone) ==
  IF tone = "formal"
  THEN Word("Use formal language, appropriate for professional or academic contexts. ")
  ELSE IF tone = "informal" THEN Word("Use informal but respectful language. ")
  ELSE IF tone = "casual" THEN Word("Use casual, conversational language. ")
  ELSE IF tone = "professional"
  THEN Word("Use professional language appropriate for business contexts. ")
  ELSE NeutralTone

StandardStyle == Word("Translate with a balance of accuracy and readability. ")
\* switch(options.style)
StyleClause(style) ==
  IF style = "simplified"
  THEN Word("Simplify the translation while preserving core meaning. Use simpler vocabulary and shorter sentences. ")
  ELSE IF style = "detailed"
  THEN Word("Provide a detailed translation, preserving nuances and subtleties of the original text. ")
  ELSE StandardStyle

FormattingClause ==
  Word("Preserve the original formatting including paragraphs, bullet points, and text structure. ")

\* the table langInstructions
HintedLanguages == {"es", "fr", "de", "ja", "zh"}
LangInstructions(code) ==
  IF code = "es"
  THEN Word("For Spanish, pay attention to formal vs. informal \"you\" (tu/usted) based on the tone. ")
  ELSE IF code = "fr"
  THEN Word("For French, pay attention to formal vs. informal \"you\" (tu/vous) based on the tone. ")
  ELSE IF code = "de"
  THEN Word("For German, pay attention to formal vs. informal \"you\" (du/Sie) based on the tone. ")
  ELSE IF code = "ja"
  THEN Word("For Japanese, use appropriate levels of politeness (keigo) based on the tone. ")
  ELSE Word("For Chinese, use simplified characters unless otherwise specified. ")

\* langInstructions[targetLang] || ''
_getLanguageSpecificInstructions(targetLang) ==
  IF Len(targetLang) = 1 /\ targetLang[1].n = 1
     /\ targetLang[1].c \in HintedLanguages
  THEN LangInstructions(targetLang[1].c)
  ELSE <<>>

\* the neutral and the standard clause added when no tone, no style is given
_createSystemInstructionAlwaysDefaults(sourceLang, targetLang, options) ==
  CatAll(<<BaseInstruction(sourceLang, targetLang),
           ToneClause(OptionString(options, "tone")),
           StyleClause(OptionString(options, "style")),
           IF PreserveFormatting(options) THEN FormattingClause ELSE <<>>,
           _getLanguageSpecificInstructions(targetLang)>>)

_createSystemInstruction(sourceLang, targetLang, options) ==
  CatAll(<<BaseInstruction(sourceLang, targetLang),
           IF OptionString(options, "tone") # ""
           THEN ToneClause(OptionString(options, "tone")) ELSE <<>>,
           IF OptionString(options, "style") # ""
           THEN StyleClause(OptionString(options, "style")) ELSE <<>>,
           IF PreserveFormatting(options) THEN FormattingClause ELSE <<>>,
           _getLanguageSpecificInstructions(targetLang)>>)

\* the parameters before the style is looked at; temperature in tenths
DefaultParams == [model |-> "gpt-4", temperature |-> 3, maxTokens |-> 2000]
DetailedParams == [model |-> "gpt-4", temperature |-> 4, maxTokens |-> 3000]
SimplifiedParams == [model |-> "gpt-4", temperature |-> 2, maxTokens |-> 1500]

\* the parameters of the detailed style given to every formal translation
_determineModelParametersByTone(options) ==
  IF OptionString(options, "style") = "detailed"
     \/ OptionString(options, "tone") = "formal" THEN DetailedParams
  ELSE IF OptionString(options, "style") = "simplified" THEN SimplifiedParams
  ELSE DefaultParams

_determineModelParameters(options) ==
  IF OptionString(options, "style") = "detailed" THEN DetailedParams
  ELSE IF OptionString(options, "style") = "simplified" THEN SimplifiedParams
  ELSE DefaultParams

----------------------------------------------------------------------------
(* The external API: openai.chat.completions.create                        *)

Pending == [st |-> "pending", content |-> <<>>, message |-> "", status |-> 0]
Success(content) ==
  [st |-> "ok", content |-> content, message |-> "", status |-> 0]
\* a rejected call; status 0 stands for an error without a response
Failure(message, status) ==
  [st |-> "error", content |-> <<>>, message |-> message, status |-> status]

Failures == {Failure("Request timed out", 0), Failure("Rate limit reached", 429)}

\* rejections with every response status translateText tells apart, with
\* another status, and without a response
AllFailures ==
  Failures \cup {Failure("Incorrect API key provided", 401),
                 Failure("The server had an error", 500),
                 Failure("The engine is overloaded", 503)}

\* what a translation call may answer
TranslateOutcomes ==
  {Success(Word("y")), Success(<<Run(SP, 1), Run("z", 1), Run(NL, 1)>>)}
  \cup Failures

\* what a detection call may answer
DetectOutcomes ==
  {Success(Word("fr")), Success(<<Run(SP, 1), Run("EN", 1), Run(NL, 1)>>)}
  \cup Failures

\* the request of one chat completion: the arguments its system instruction
\* and model parameters are computed from, the system and the user message,
\* and the parameters sent
TranslateCall(sourceLang, targetLang, options, content) ==
  [api |-> "translate", sourceLang |-> sourceLang, targetLang |-> targetLang,
   options |-> options, user |-> content,
   system |-> _createSystemInstruction(sourceLang, targetLang, options),
   params |-> _determineModelParameters(options),
   outcome |-> Pending]

DetectInstruction ==
  Word("You are a language detection system. Analyze the provided text and respond with only the ISO 639-1 language code of the detected language (e.g., \"en\" for English, \"fr\" for French).")
DetectParams == [model |-> "gpt-4", temperature |-> 1, maxTokens |-> 10]

DetectCall(content) ==
  [api |-> "detect", sourceLang |-> <<>>, targetLang |-> <<>>,
   options |-> UndefinedOptions, user |-> content,
   system |-> DetectInstruction, params |-> DetectParams,
   outcome |-> Pending]

----------------------------------------------------------------------------
(* OpenAIService                                                           *)

Return(v) == [kind |-> "return", val |-> v, message |-> ""]
Throw(m) == [kind |-> "throw", val |-> <<>>, message |-> m]

\* Math.ceil(len / 3)
EstimatedTokens(len) == (len + CharsPerToken - 1) \div CharsPerToken

\* the estimate rounded down instead of up
_exceedsTokenLimitFloor(text) == Length(text) \div CharsPerToken > TokenLimit

\* the text compared with the chunk size instead of the token limit
_exceedsTokenLimitChunkSize(text) == Length(text) > ChunkLimit

_exceedsTokenLimit(text) == EstimatedTokens(Length(text)) > TokenLimit

\* the paragraph loop of _handleLargeText: cs is chunks, cur is currentChunk
RECURSIVE PackFrom(_, _, _, _)
PackFrom(paragraphs, i, cs, cur) ==
  IF i > Len(paragraphs)
  THEN IF cur # <<>> THEN Append(cs, cur) ELSE cs
  ELSE LET paragraph == paragraphs[i]
       IN IF Length(cur) + Length(paragraph) > ChunkLimit
          THEN PackFrom(paragraphs, i + 1,
                        IF cur # <<>> THEN Append(cs, cur) ELSE cs,
                        paragraph)
          ELSE PackFrom(paragraphs, i + 1, cs,
                        Cat(Cat(cur, IF cur # <<>> THEN ParagraphSeparator
                                                   ELSE <<>>),
                            paragraph))

\* the chunks _handleLargeText translates
ChunksOf(text) == PackFrom(Split(text), 1, <<>>, <<>>)

\* every chunk dispatched at once, as with Promise.all
ChunksToIssueAtOnce(cs, k) == IF k = 0 THEN [i \in 1..Len(cs) |-> i] ELSE <<>>

\* the chunks whose call the translation loop issues once k chunk calls have
\* settled: the loop awaits each call before it starts the next one
ChunksToIssue(cs, k) == IF k < Len(cs) THEN <<k + 1>> ELSE <<>>

\* the output put in front of the list
PushTranslatedFront(tcs, out) == <<out>> \o tcs

\* a failed chunk not recorded, so that the loop asks for it again
PushTranslatedRetryOnError(tcs, out) ==
  IF out # <<>> /\ out[1].c = "[TRANSLATION ERROR: " THEN tcs ELSE Append(tcs, out)

\* translatedChunks.push(translatedChunk)
PushTranslated(tcs, out) == Append(tcs, out)

ErrorMarker(message) ==
  <<Run("[TRANSLATION ERROR: ", 1), Run(message, 1), Run("]", 1)>>

\* the failure of a chunk call thrown on to the caller
_translateChunkRethrows(outcome) ==
  IF outcome.st = "ok" THEN Return(Trim(outcome.content))
  ELSE Throw(outcome.message)

\* what _translateChunk gives for the outcome of its call
_translateChunk(outcome) ==
  IF outcome.st = "ok" THEN Return(Trim(outcome.content))
  ELSE Return(ErrorMarker(outcome.message))

\* the catch block of translateText without its branch for status 401
TranslateTextCatchNoAuth(error) ==
  IF error.status = 429
  THEN Throw("Rate limit exceeded. Please try again later.")
  ELSE IF error.status = 500
  THEN Throw("OpenAI service error. Please try again later.")
  ELSE Throw("Translation failed. Please try again.")

\* the catch block of translateText
TranslateTextCatch(error) ==
  IF error.status = 429
  THEN Throw("Rate limit exceeded. Please try again later.")
  ELSE IF error.status = 401
  THEN Throw("Authentication error. Please check your API key.")
  ELSE IF error.status = 500
  THEN Throw("OpenAI service error. Please try again later.")
  ELSE Throw("Translation failed. Please try again.")

\* the input validation of translateText
TranslateTextInvalid(text, sourceLang, targetLang) ==
  \/ Falsy(text)
  \/ text.t # "string"
  \/ sourceLang = <<>>
  \/ targetLang = <<>>

\* the error the validation throws, inside the try block of translateText
ValidationError(text) ==
  IF Falsy(text) \/ text.t # "string"
  THEN Failure("Invalid text input", 0)
  ELSE Failure("Source and target languages are required", 0)

\* what translateText gives for the outcome of its direct call
TranslateTextDirect(outcome) ==
  IF outcome.st = "ok" THEN Return(Trim(outcome.content))
  ELSE TranslateTextCatch(outcome)

\* the answer of the detection call handed on as it came
DetectLanguageRaw(outcome) ==
  IF outcome.st = "ok" THEN Return(outcome.content)
  ELSE Throw("Language detection failed. Please specify the source language manually.")

\* a failed detection answered with a default language
DetectLanguageFallback(outcome) ==
  IF outcome.st = "ok" THEN Return(ToLowerCase(Trim(outcome.content)))
  ELSE Return(Word("en"))

\* what detectLanguage gives for the outcome of its call
DetectLanguage(outcome) ==
  IF outcome.st = "ok" THEN Return(ToLowerCase(Trim(outcome.content)))
  ELSE Throw("Language detection failed. Please specify the source language manually.")

----------------------------------------------------------------------------
(* createTranslation: the controller's answers and the stored record       *)

NoData == [none |-> TRUE]
NoResponse == [status |-> 0, success |-> FALSE, message |-> "", data |-> NoData,
               warning |-> ""]
ErrorResponse(status, message) ==
  [status |-> status, success |-> FALSE, message |-> message, data |-> NoData,
   warning |-> ""]

DefaultOptions == Options("standard", "standard", TRUE)
\* options || { tone: 'standard', style: 'standard', preserveFormatting: true }
TranslationOptions(options) ==
  IF options.t = "undefined" THEN DefaultOptions ELSE options

\* the default value {} of the options parameter of translateText
EmptyOptions == [t |-> "object"]
OptionsOrEmpty(options) ==
  IF options.t = "undefined" THEN EmptyOptions ELSE options

NoReturn == [kind |-> "none", val |-> <<>>, message |-> ""]

----------------------------------------------------------------------------
(* The browser client: values                                              *)

\* localStorage without an 'auth_token' item
NoToken == [t |-> "none", exp |-> 0]
\* a token jwtDecode accepts; exp is its expiry in seconds
Jwt(exp) == [t |-> "jwt", exp |-> exp]
\* a token jwtDecode throws on
Garbage == [t |-> "garbage", exp |-> 0]

\* refreshTimeoutId: number | null = null
Null == 0

\* the client before anybody has logged in, mounted without a stored token
ClientIdle ==
  /\ authToken = NoToken
  /\ user = "null"
  /\ now = 0
  /\ refreshTimeoutId = Null
  /\ timers = <<>>
  /\ logoutCalls = 0
  /\ pendingEffect = FALSE
  /\ setupCalls = <<>>
  /\ initAuth = [st |-> "done", token |-> NoToken]

----------------------------------------------------------------------------
(* Inputs                                                                  *)

\* lengths of the runs of non-whitespace characters of a source text
XLens == {1250, 1500, 8999}
SourceRuns == {Run("x", n) : n \in XLens} \cup {Run(NL, 1), Run(NL, 2), Run(SP, 1)}

Normalised(s) == \A i \in 1..(Len(s) - 1) : s[i].c # s[i + 1].c

Texts == {s \in UNION {[1..n -> SourceRuns] : n \in 0..MaxRuns} : Normalised(s)}

SourceTexts == {Str(s) : s \in Texts} \cup {Undefined, Num}
Languages == {<<>>, Word("en")}
TargetLanguages == {<<>>, Word("es")}
\* the options are handed on unread by the operations modelled here
OptionsSet == {UndefinedOptions}
UserIds == {"u1"}

Requests ==
  [userId : UserIds, sourceText : SourceTexts, sourceLang : Languages,
   targetLang : TargetLanguages, options : OptionsSet]

----------------------------------------------------------------------------
(* The state machine                                                       *)

Init ==
  /\ pc = "start"
  /\ entry \in {"createTranslation", "translateText"}
  /\ req \in Requests
  /\ detectedSourceLang = <<>>
  /\ chunks = <<>>
  /\ translatedChunks = <<>>
  /\ calls = <<>>
  /\ ret = NoReturn
  /\ res = NoResponse
  /\ store = <<>>
  /\ nextId = 1
  /\ ops = <<>>
  /\ users = <<>>
  /\ ClientIdle

\* translateText has settled with t: a direct caller gets t; createTranslation
\* answers 500 when it threw and goes on to store the record when it returned
Settled(t) ==
  /\ ret' = t
  /\ IF entry = "translateText"
     THEN pc' = "done" /\ res' = res
     ELSE IF t.kind = "throw"
     THEN /\ pc' = "done"
          /\ res' = ErrorResponse(500,
                      IF t.message # "" THEN t.message
                      ELSE "Translation service temporarily unavailable")
     ELSE pc' = "save" /\ res' = res

\* the calls of the chunks numbered in idx, appended to cl
RECURSIVE IssueChunks(_, _, _, _, _, _)
IssueChunks(cl, cs, idx, sourceLang, targetLang, options) ==
  IF idx = <<>> THEN cl
  ELSE IssueChunks(
         Append(cl, TranslateCall(sourceLang, targetLang, options,
                                  Str(cs[Head(idx)]))),
         cs, Tail(idx), sourceLang, targetLang, options)

\* translateText up to its first await (or to its end when there is none)
\* cl is the log of the calls made so far
EnterTranslateText(cl, text, sourceLang, targetLang, options) ==
  IF TranslateTextInvalid(text, sourceLang, targetLang)
  THEN /\ Settled(TranslateTextCatch(ValidationError(text)))
       /\ UNCHANGED <<chunks, translatedChunks>>
       /\ calls' = cl
  ELSE IF _exceedsTokenLimit(text.s)
  THEN LET cs == ChunksOf(text.s)
       IN /\ chunks' = cs
          /\ translatedChunks' = <<>>
          /\ IF cs = <<>>
             THEN Settled(Return(Join(<<>>))) /\ calls' = cl
             ELSE /\ calls' = IssueChunks(cl, cs, ChunksToIssue(cs, 0),
                                          sourceLang, targetLang, options)
                  /\ pc' = "chunks"
                  /\ UNCHANGED <<ret, res>>
  ELSE /\ calls' = Append(cl,
                          TranslateCall(sourceLang, targetLang, options, text))
       /\ pc' = "direct"
       /\ UNCHANGED <<chunks, translatedChunks, ret, res>>

\* createTranslation from its entry to its first await
CreateTranslation ==
  /\ pc = "start"
  /\ entry = "createTranslation"
  /\ UNCHANGED <<entry, req, store, nextId, ops, users, clientVars>>
  /\ IF Falsy(req.sourceText)
     THEN /\ res' = ErrorResponse(400, "Source text is required")
          /\ pc' = "done"
          /\ UNCHANGED <<detectedSourceLang, chunks, translatedChunks, calls, ret>>
     ELSE IF req.sourceLang = <<>>
     THEN /\ calls' = Append(calls, DetectCall(req.sourceText))
          /\ pc' = "detect"
          /\ UNCHANGED <<detectedSourceLang, chunks, translatedChunks, ret, res>>
     ELSE /\ detectedSourceLang' = req.sourceLang
          /\ IF req.targetLang = <<>>
             THEN /\ res' = ErrorResponse(400, "Target language is required")
                  /\ pc' = "done"
                  /\ UNCHANGED <<chunks, translatedChunks, calls, ret>>
             ELSE EnterTranslateText(calls, req.sourceText, req.sourceLang,
                                     req.targetLang,
                                     TranslationOptions(req.options))

\* openAIService.translateText called by itself; options = {} by default
TranslateText ==
  /\ pc = "start"
  /\ entry = "translateText"
  /\ UNCHANGED <<entry, req, store, nextId, ops, users, clientVars,
                 detectedSourceLang>>
  /\ EnterTranslateText(calls, req.sourceText, req.sourceLang, req.targetLang,
                        OptionsOrEmpty(req.options))

\* the log cl with the outcome of call i recorded
Settle(cl, i, outcome) == [cl EXCEPT ![i].outcome = outcome]

InFlight == {i \in 1..Len(calls) : calls[i].outcome.st = "pending"}

\* the detection call settles and createTranslation runs to its next await
DetectLanguageSettles ==
  /\ pc = "detect"
  /\ \E i \in InFlight, outcome \in DetectOutcomes :
       /\ calls[i].api = "detect"
       /\ UNCHANGED <<entry, req, store, nextId, ops, users, clientVars>>
       /\ LET d == DetectLanguage(outcome)
              cl == Settle(calls, i, outcome)
          IN IF d.kind = "throw"
             THEN /\ res' = ErrorResponse(400,
                     "Source language is required and could not be automatically detected")
                  /\ pc' = "done"
                  /\ calls' = cl
                  /\ UNCHANGED <<detectedSourceLang, chunks, translatedChunks, ret>>
             ELSE /\ detectedSourceLang' = d.val
                  /\ IF req.targetLang = <<>>
                     THEN /\ res' = ErrorResponse(400, "Target language is required")
                          /\ pc' = "done"
                          /\ calls' = cl
                          /\ UNCHANGED <<chunks, translatedChunks, ret>>
                     ELSE EnterTranslateText(cl, req.sourceText, d.val,
                                             req.targetLang,
                                             TranslationOptions(req.options))

\* the call of the direct path settles with one of the outcomes
DirectCallSettlesWith(outcomes) ==
  /\ pc = "direct"
  /\ \E i \in InFlight, outcome \in outcomes :
       /\ calls[i].api = "translate"
       /\ calls' = Settle(calls, i, outcome)
       /\ Settled(TranslateTextDirect(outcome))
       /\ UNCHANGED <<entry, req, store, nextId, ops, users, clientVars,
                      detectedSourceLang, chunks, translatedChunks>>

\* the call of a chunk settles: its output is pushed, and the loop of
\* _handleLargeText goes on to the next chunk or returns the joined outputs
ChunkCallSettlesWith(outcomes) ==
  /\ pc = "chunks"
  /\ \E i \in InFlight, outcome \in outcomes :
       /\ calls[i].api = "translate"
       /\ UNCHANGED <<entry, req, store, nextId, ops, users, clientVars,
                      detectedSourceLang, chunks>>
       /\ LET r == _translateChunk(outcome)
              cl == Settle(calls, i, outcome)
              tcs == PushTranslated(translatedChunks, r.val)
              next == ChunksToIssue(chunks, Len(tcs))
          IN IF r.kind = "throw"
             THEN /\ calls' = cl
                  /\ translatedChunks' = translatedChunks
                  /\ Settled(r)
             ELSE /\ translatedChunks' = tcs
                  /\ calls' = IssueChunks(cl, chunks, next, calls[i].sourceLang,
                                          calls[i].targetLang, calls[i].options)
                  /\ IF next = <<>> /\ Len(tcs) >= Len(chunks)
                     THEN Settled(Return(Join(tcs)))
                     ELSE pc' = "chunks" /\ UNCHANGED <<ret, res>>

DirectCallSettles == DirectCallSettlesWith(TranslateOutcomes)
ChunkCallSettles == ChunkCallSettlesWith(TranslateOutcomes)

\* the record stored without its owner
NewRecordUnowned(id) ==
  [id |-> id, userId |-> "", sourceText |-> req.sourceText.s,
   translatedText |-> ret.val, sourceLang |-> detectedSourceLang,
   targetLang |-> req.targetLang, options |-> TranslationOptions(req.options),
   isFavorite |-> FALSE]

\* the record createTranslation stores; id is the value of uuid(), a fresh
\* one for every record
NewRecord(id) ==
  [id |-> id, userId |-> req.userId, sourceText |-> req.sourceText.s,
   translatedText |-> ret.val, sourceLang |-> detectedSourceLang,
   targetLang |-> req.targetLang, options |-> TranslationOptions(req.options),
   isFavorite |-> FALSE]

\* the catch of prisma.translation.create answering as the handler's outer
\* catch does
SaveFailedResponseError ==
  ErrorResponse(500, "An unexpected error occurred during translation")

\* the answer of the catch of prisma.translation.create: the translation
\* as a temporary object
SaveFailedResponse ==
  [status |-> 200, success |-> TRUE, message |-> "",
   data |-> [sourceText |-> req.sourceText.s,
             translatedText |-> ret.val,
             sourceLang |-> detectedSourceLang,
             targetLang |-> req.targetLang,
             options |-> TranslationOptions(req.options),
             isFavorite |-> FALSE,
             dbSaveFailed |-> TRUE],
   warning |-> "Translation completed but could not be saved to history"]

\* prisma.translation.create settles and createTranslation answers
SaveSettles ==
  /\ pc = "save"
  /\ \E ok \in BOOLEAN :
       IF ok
       THEN /\ store' = Append(store, NewRecord(nextId))
            /\ nextId' = nextId + 1
            /\ res' = [status |-> 201, success |-> TRUE, message |-> "",
                       data |-> NewRecord(nextId), warning |-> ""]
       ELSE /\ UNCHANGED <<store, nextId>>
            /\ res' = SaveFailedResponse
  /\ pc' = "done"
  /\ UNCHANGED <<entry, req, detectedSourceLang, chunks, translatedChunks,
                 calls, ret, ops, users, clientVars>>

Next ==
  \/ CreateTranslation
  \/ TranslateText
  \/ DetectLanguageSettles
  \/ DirectCallSettles
  \/ ChunkCallSettles
  \/ SaveSettles

Spec == Init /\ [][Next]_vars

----------------------------------------------------------------------------
(* A request with any options and target language, and calls rejected with *)
(* any status, on one short text and one text of two chunks                *)

ShortText == <<Run("x", 1250)>>
TwoChunkText == <<Run("x", 8999), Run(NL, 2), Run("x", 1250)>>

Tones == {"", "formal", "informal", "casual", "professional", "standard"}
Styles == {"", "simplified", "detailed", "standard", "literal"}
AnyOptions ==
  {UndefinedOptions}
  \cup {Options(tone, style, pf) : tone \in Tones, style \in Styles, pf \in BOOLEAN}
AnyTargetLanguages ==
  {<<>>} \cup {Word(c) : c \in HintedLanguages \cup {"it", "ES"}}

OptionRequests ==
  [userId : UserIds, sourceText : {Str(ShortText), Str(TwoChunkText)},
   sourceLang : Languages, targetLang : AnyTargetLanguages,
   options : AnyOptions]

InitOptions ==
  /\ pc = "start"
  /\ entry \in {"createTranslation", "translateText"}
  /\ req \in OptionRequests
  /\ detectedSourceLang = <<>>
  /\ chunks = <<>>
  /\ translatedChunks = <<>>
  /\ calls = <<>>
  /\ ret = NoReturn
  /\ res = NoResponse
  /\ store = <<>>
  /\ nextId = 1
  /\ ops = <<>>
  /\ users = <<>>
  /\ ClientIdle

AnyTranslateOutcomes == {Success(Word("y"))} \cup AllFailures

DirectCallSettlesAny == DirectCallSettlesWith(AnyTranslateOutcomes)
ChunkCallSettlesAny == ChunkCallSettlesWith(AnyTranslateOutcomes)

NextOptions ==
  \/ CreateTranslation
  \/ TranslateText
  \/ DetectLanguageSettles
  \/ DirectCallSettlesAny
  \/ ChunkCallSettlesAny
  \/ SaveSettles

SpecOptions == InitOptions /\ [][NextOptions]_vars

----------------------------------------------------------------------------
(* The store under requests of several users: createTranslation requests   *)
(* one after the other, toggleFavorite and deleteTranslation requests      *)
(* running concurrently with them and with each other.  The rows of store  *)
(* are in creation order, which is the order of createdAt.  A request of   *)
(* toggleFavorite or deleteTranslation has two awaits; the action named    *)
(* after the handler runs it from its entry through the lookup to the      *)
(* second await (or to its answer), the ...Settles action from the update  *)
(* or delete of the store to the answer.  The store answers every query;   *)
(* only prisma.translation.create may be rejected, the failure the code    *)
(* has an answer of its own for.                                           *)

\* most records ever created
MaxRecords == 2
\* most toggleFavorite and deleteTranslation requests
MaxOps == 2

StoreUsers == {"u1", "u2"}
\* req.params.id
RecordIds == 1..MaxRecords

StoreRequests ==
  [userId : StoreUsers, sourceText : {Str(ShortText)},
   sourceLang : {Word("en")}, targetLang : {Word("es")},
   options : {UndefinedOptions}]

InitStore ==
  /\ pc = "start"
  /\ entry = "createTranslation"
  /\ req \in StoreRequests
  /\ detectedSourceLang = <<>>
  /\ chunks = <<>>
  /\ translatedChunks = <<>>
  /\ calls = <<>>
  /\ ret = NoReturn
  /\ res = NoResponse
  /\ store = <<>>
  /\ nextId = 1
  /\ ops = <<>>
  /\ users = <<>>
  /\ ClientIdle

\* the next createTranslation request arrives
NewRequest ==
  /\ pc = "done"
  /\ nextId <= MaxRecords
  /\ pc' = "start"
  /\ req' \in StoreRequests
  /\ detectedSourceLang' = <<>>
  /\ chunks' = <<>>
  /\ translatedChunks' = <<>>
  /\ calls' = <<>>
  /\ ret' = NoReturn
  /\ res' = NoResponse
  /\ UNCHANGED <<entry, store, nextId, ops, users, clientVars>>

\* what the translation call of a stored request may answer
StoreOutcomes == {Success(Word("y")), Failure("Rate limit reached", 429)}

DirectCallSettlesStore == DirectCallSettlesWith(StoreOutcomes)

\* prisma.translation.findUnique({ where: { id } }): no row or one row
FindUnique(rows, id) == SelectSeq(rows, LAMBDA r : r.id = id)

\* prisma.translation.update({ where: { id }, data: { isFavorite } })
UpdateFavorite(rows, id, isFavorite) ==
  [i \in 1..Len(rows) |->
     IF rows[i].id = id THEN [rows[i] EXCEPT !.isFavorite = isFavorite]
     ELSE rows[i]]

\* prisma.translation.delete({ where: { id } })
DeleteRow(rows, id) == SelectSeq(rows, LAMBDA r : r.id # id)

OkResponse(message, data) ==
  [status |-> 200, success |-> TRUE, message |-> message, data |-> data,
   warning |-> ""]

\* a request of toggleFavorite or deleteTranslation that has found its row
\* and awaits the second query
Awaiting(kind, userId, id, translation) ==
  [kind |-> kind, userId |-> userId, id |-> id, pc |-> "await",
   translation |-> translation, res |-> NoResponse]
\* a request that has answered
Answered(kind, userId, id, translation, response) ==
  [kind |-> kind, userId |-> userId, id |-> id, pc |-> "done",
   translation |-> translation, res |-> response]

\* the lookup without the comparison of the row's owner with the requester
LookupAnyUser(kind, userId, id, forbidden) ==
  LET found == FindUnique(store, id)
  IN IF found = <<>>
     THEN Answered(kind, userId, id, found,
                   ErrorResponse(404, "Translation not found"))
     ELSE Awaiting(kind, userId, id, found)

\* a request from its entry to its second await: 404 without a row, 403
\* for a row of another user
Lookup(kind, userId, id, forbidden) ==
  LET found == FindUnique(store, id)
  IN IF found = <<>>
     THEN Answered(kind, userId, id, found,
                   ErrorResponse(404, "Translation not found"))
     ELSE IF found[1].userId # userId
     THEN Answered(kind, userId, id, found, ErrorResponse(403, forbidden))
     ELSE Awaiting(kind, userId, id, found)

ToggleFavorite ==
  /\ Len(ops) < MaxOps
  /\ \E userId \in StoreUsers, id \in RecordIds :
       ops' = Append(ops, Lookup("toggleFavorite", userId, id,
                                 "Not authorized to access this translation"))
  /\ UNCHANGED <<requestVars, store, nextId, users, clientVars>>

DeleteTranslation ==
  /\ Len(ops) < MaxOps
  /\ \E userId \in StoreUsers, id \in RecordIds :
       ops' = Append(ops, Lookup("deleteTranslation", userId, id,
                                 "Not authorized to delete this translation"))
  /\ UNCHANGED <<requestVars, store, nextId, users, clientVars>>

\* data: { isFavorite: !translation.isFavorite }
ToggledValue(translation) == ~translation.isFavorite

\* the update of toggleFavorite settles: rejected when the row is gone
ToggleFavoriteUpdateSettles ==
  /\ \E i \in 1..Len(ops) :
       /\ ops[i].kind = "toggleFavorite"
       /\ ops[i].pc = "await"
       /\ IF FindUnique(store, ops[i].id) = <<>>
          THEN /\ store' = store
               /\ ops' = [ops EXCEPT ![i].pc = "done",
                             ![i].res = ErrorResponse(500, "Error updating translation")]
          ELSE LET rows == UpdateFavorite(store, ops[i].id,
                                          ToggledValue(ops[i].translation[1]))
               IN /\ store' = rows
                  /\ ops' = [ops EXCEPT ![i].pc = "done",
                                ![i].res = OkResponse("", FindUnique(rows, ops[i].id)[1])]
  /\ UNCHANGED <<requestVars, nextId, users, clientVars>>

\* the delete of deleteTranslation settles: rejected when the row is gone
DeleteSettles ==
  /\ \E i \in 1..Len(ops) :
       /\ ops[i].kind = "deleteTranslation"
       /\ ops[i].pc = "await"
       /\ IF FindUnique(store, ops[i].id) = <<>>
          THEN /\ store' = store
               /\ ops' = [ops EXCEPT ![i].pc = "done",
                             ![i].res = ErrorResponse(500, "Error deleting translation")]
          ELSE /\ store' = DeleteRow(store, ops[i].id)
               /\ ops' = [ops EXCEPT ![i].pc = "done",
                             ![i].res = OkResponse("Translation deleted successfully", NoData)]
  /\ UNCHANGED <<requestVars, nextId, users, clientVars>>

NextStore ==
  \/ CreateTranslation
  \/ DirectCallSettlesStore
  \/ SaveSettles
  \/ NewRequest
  \/ ToggleFavorite
  \/ ToggleFavoriteUpdateSettles
  \/ DeleteTranslation
  \/ DeleteSettles

SpecStore == InitStore /\ [][NextStore]_vars

----------------------------------------------------------------------------
(* getTranslations and getFavorites on a store that does not change.  A    *)
(* query value is absent or a string, a sequence of characters.            *)

\* most rows of a store drawn row by row
MaxListed == 3

DigitChars == <<"0", "1", "2", "3", "4", "5", "6", "7", "8", "9">>
IsDigit(c) == \E i \in 1..Len(DigitChars) : DigitChars[i] = c
DigitValue(c) == (CHOOSE i \in 1..Len(DigitChars) : DigitChars[i] = c) - 1

\* the white space parseInt skips at the start
RECURSIVE SkipLeadingSpace(_)
SkipLeadingSpace(cs) ==
  IF cs # <<>> /\ Head(cs) = SP THEN SkipLeadingSpace(Tail(cs)) ELSE cs

\* the digits parseInt reads: up to the first character that is none
RECURSIVE LeadingDigits(_)
LeadingDigits(cs) ==
  IF cs = <<>> \/ ~IsDigit(Head(cs)) THEN <<>>
  ELSE <<Head(cs)>> \o LeadingDigits(Tail(cs))

RECURSIVE DecimalValue(_)
DecimalValue(ds) ==
  IF ds = <<>> THEN 0
  ELSE DecimalValue(SubSeq(ds, 1, Len(ds) - 1)) * 10 + DigitValue(ds[Len(ds)])

NaN == [nan |-> TRUE, n |-> 0]
Number(n) == [nan |-> FALSE, n |-> n]

\* parseInt(v, 10) of an absent value or of a string without a sign
ParseInt(v) ==
  IF v.t = "undefined" THEN NaN
  ELSE LET ds == LeadingDigits(SkipLeadingSpace(v.s))
       IN IF ds = <<>> THEN NaN ELSE Number(DecimalValue(ds))

\* x || d
OrDefault(x, d) == IF x.nan \/ x.n = 0 THEN d ELSE x.n

DefaultPage == 1
DefaultLimit == 10
\* parseInt(req.query.page, 10) || 1
PageOf(query) == OrDefault(ParseInt(query.page), DefaultPage)
\* parseInt(req.query.limit, 10) || 10
LimitOf(query) == OrDefault(ParseInt(query.limit), DefaultLimit)

\* Math.ceil(a / b) for a >= 0, b > 0
Ceil(a, b) == (a + b - 1) \div b

RECURSIVE Reverse(_)
Reverse(rows) ==
  IF rows = <<>> THEN <<>> ELSE Append(Reverse(Tail(rows)), Head(rows))

\* where: { userId } or where: { userId, isFavorite: true }
Where(rows, userId, favoritesOnly) ==
  SelectSeq(rows, LAMBDA r : r.userId = userId /\ (favoritesOnly => r.isFavorite))

\* orderBy: { createdAt: 'desc' }: the rows are kept in creation order
OrderByCreatedAtDesc(rows) == Reverse(rows)

\* skip, take
SkipTake(rows, skip, take) == SubSeq(rows, skip + 1, Min({skip + take, Len(rows)}))

\* the rows in their order of creation, oldest first
FindManyOldestFirst(rows, userId, favoritesOnly, skip, take) ==
  SkipTake(Where(rows, userId, favoritesOnly), skip, take)

\* prisma.translation.findMany
FindMany(rows, userId, favoritesOnly, skip, take) ==
  SkipTake(OrderByCreatedAtDesc(Where(rows, userId, favoritesOnly)), skip, take)

\* prisma.translation.count
Count(rows, userId, favoritesOnly) == Len(Where(rows, userId, favoritesOnly))

\* a listing request that has its rows and awaits the count
AwaitingCount(kind, userId, query, translations) ==
  [kind |-> kind, userId |-> userId, query |-> query, pc |-> "count",
   translations |-> translations, res |-> NoResponse]

ListResponse(translations, totalCount, page, limit) ==
  [status |-> 200, success |-> TRUE, count |-> Len(translations),
   totalPages |-> Ceil(totalCount, limit), currentPage |-> page,
   data |-> translations]

Chars(v) == [t |-> "string", s |-> v]
QueryValues ==
  {Undefined, Chars(<<>>), Chars(<<"0">>), Chars(<<"1">>), Chars(<<"2">>),
   Chars(<<"3">>), Chars(<<"1", "0">>), Chars(<<"a">>), Chars(<<"2", "a">>),
   Chars(<<SP, "2">>)}
Queries == [page : QueryValues, limit : QueryValues]

\* a stored row, of which the listing reads the owner and the flag
ListedRow(id, userId, isFavorite) ==
  [id |-> id, userId |-> userId, sourceText |-> ShortText,
   translatedText |-> Word("y"), sourceLang |-> Word("en"),
   targetLang |-> Word("es"), options |-> DefaultOptions,
   isFavorite |-> isFavorite]

\* eleven rows of one user among twelve, more than the default limit
LongStore ==
  [i \in 1..12 |-> ListedRow(i, IF i = 5 THEN "u2" ELSE "u1", i % 2 = 1)]

ListStores ==
  {LongStore} \cup
  UNION {{[i \in 1..n |-> ListedRow(i, f[i][1], f[i][2])] :
            f \in [1..n -> StoreUsers \X BOOLEAN]} : n \in 0..MaxListed}

InitList ==
  /\ pc = "done"
  /\ entry = "createTranslation"
  /\ req \in {r \in StoreRequests : r.userId = "u1"}
  /\ detectedSourceLang = <<>>
  /\ chunks = <<>>
  /\ translatedChunks = <<>>
  /\ calls = <<>>
  /\ ret = NoReturn
  /\ res = NoResponse
  /\ store \in ListStores
  /\ nextId = Len(store) + 1
  /\ ops = <<>>
  /\ users = <<>>
  /\ ClientIdle

\* a listing from its entry through findMany to the await of the count
Listing(kind, favoritesOnly) ==
  /\ ops = <<>>
  /\ \E userId \in StoreUsers, query \in Queries :
       LET page == PageOf(query)
           limit == LimitOf(query)
           skip == (page - 1) * limit
       IN ops' = <<AwaitingCount(kind, userId, query,
                                 FindMany(store, userId, favoritesOnly, skip, limit))>>
  /\ UNCHANGED <<requestVars, store, nextId, users, clientVars>>

\* the count settles and the listing answers
CountSettles(kind, favoritesOnly) ==
  /\ ops # <<>>
  /\ ops[1].kind = kind
  /\ ops[1].pc = "count"
  /\ ops' = [ops EXCEPT ![1].pc = "done",
                ![1].res = ListResponse(ops[1].translations,
                                        Count(store, ops[1].userId, favoritesOnly),
                                        PageOf(ops[1].query),
                                        LimitOf(ops[1].query))]
  /\ UNCHANGED <<requestVars, store, nextId, users, clientVars>>

GetTranslations == Listing("getTranslations", FALSE)
GetTranslationsCountSettles == CountSettles("getTranslations", FALSE)
GetFavorites == Listing("getFavorites", TRUE)
GetFavoritesCountSettles == CountSettles("getFavorites", TRUE)

NextList ==
  \/ GetTranslations
  \/ GetTranslationsCountSettles
  \/ GetFavorites
  \/ GetFavoritesCountSettles

SpecList == InitList /\ [][NextList]_vars

----------------------------------------------------------------------------
(* The browser client: TokenManager and the parts of AuthContext that call *)
(* it.  The clock is read in whole seconds and times are kept in seconds   *)
(* (a time t stands for t * 1000 ms), which is exact for the sums and      *)
(* comparisons of setupTokenRefresh and keeps thirty days within the       *)
(* integers of the checker.  The operators below take the state of the     *)
(* client as a record and give the state after the call.                   *)

\* most calls of setupTokenRefresh
MaxSetups == 3

\* decoded.exp * 1000: milliseconds in a second
MsPerSecond == 1000
\* const refreshBuffer = 5 * 60 * 1000, in milliseconds
RefreshBufferMs == 300000
RefreshBuffer == RefreshBufferMs \div MsPerSecond
\* the largest delay of window.setTimeout, a signed integer of 32 bits
MaxTimeoutMs == 2147483647

ClientState ==
  [authToken |-> authToken, user |-> user, now |-> now,
   refreshTimeoutId |-> refreshTimeoutId, timers |-> timers,
   logoutCalls |-> logoutCalls, pendingEffect |-> pendingEffect,
   setupCalls |-> setupCalls, initAuth |-> initAuth]

SetClient(s) ==
  /\ authToken' = s.authToken
  /\ user' = s.user
  /\ now' = s.now
  /\ refreshTimeoutId' = s.refreshTimeoutId
  /\ timers' = s.timers
  /\ logoutCalls' = s.logoutCalls
  /\ pendingEffect' = s.pendingEffect
  /\ setupCalls' = s.setupCalls
  /\ initAuth' = s.initAuth

\* window.clearTimeout: a timer that has fired is left as it is
ClearTimeout(ts, id) ==
  [ts EXCEPT ![id].st = IF @ = "pending" THEN "cleared" ELSE @]

\* clearRefreshTimeout that forgets the timer without window.clearTimeout
ClearRefreshTimeoutForgets(s) == [s EXCEPT !.refreshTimeoutId = Null]

\* TokenManager.clearRefreshTimeout
ClearRefreshTimeout(s) ==
  IF s.refreshTimeoutId # Null
  THEN [s EXCEPT !.timers = ClearTimeout(@, s.refreshTimeoutId),
                 !.refreshTimeoutId = Null]
  ELSE s

\* authService.setAuthToken, authService.removeAuthToken
SetAuthToken(s, token) == [s EXCEPT !.authToken = token]
RemoveAuthToken(s) == [s EXCEPT !.authToken = NoToken]

\* setUser: the effect on [user] runs after a render with another user; the
\* user of a response is a new object every time
SetUser(s, u) ==
  [s EXCEPT !.user = u,
            !.pendingEffect = @ \/ u # "null" \/ s.user # "null"]

\* AuthContext.logout, which is also the logoutCallback of the TokenManager
Logout(s) ==
  LET t == SetUser(RemoveAuthToken(ClearRefreshTimeout(s)), "null")
  IN [t EXCEPT !.logoutCalls = @ + 1]

\* the delay as window.setTimeout takes it: the milliseconds are converted
\* to a signed integer of 32 bits, and a negative delay counts as 0; for
\* the delays below 2^32 ms of the model every delay above the largest one
\* converts to a negative number
TimeoutDelay(delay) ==
  IF delay > MaxTimeoutMs \div MsPerSecond THEN 0 ELSE delay

\* this.refreshTimeoutId = window.setTimeout(callback, delay)
SetRefreshTimeout(s, delay) ==
  [s EXCEPT !.timers = Append(@, [due |-> s.now + TimeoutDelay(delay),
                                  st |-> "pending"]),
            !.refreshTimeoutId = Len(s.timers) + 1]

\* the token setupTokenRefresh works on: token || authService.getAuthToken()
TokenToUse(s, token) == IF token.t # "none" THEN token ELSE s.authToken

\* the time left of a token, decoded.exp * 1000 - Date.now(), in seconds
TimeUntilExpiry(token, time) == token.exp - time

\* TokenManager.setupTokenRefresh(token); the call is logged in setupCalls
SetupTokenRefresh(s, token) ==
  LET cleared == ClearRefreshTimeout(s)
      tokenToUse == TokenToUse(cleared, token)
      s1 == [cleared EXCEPT !.setupCalls =
               Append(@, [token |-> tokenToUse, now |-> s.now])]
  IN IF tokenToUse.t = "none" THEN s1
     ELSE IF tokenToUse.t = "garbage" THEN Logout(s1)
     ELSE IF TimeUntilExpiry(tokenToUse, s1.now) <= RefreshBuffer THEN Logout(s1)
     ELSE SetRefreshTimeout(s1, TimeUntilExpiry(tokenToUse, s1.now) - RefreshBuffer)

\* expiry times of tokens, in seconds: expired, five minutes and five
\* minutes and a second after time 0, ten minutes, thirty days
Exps == {0, 300, 301, 600, 2592000}
Tokens == {Jwt(e) : e \in Exps} \cup {Garbage}
\* the times the clock is read at
TimePoints == {0, 1, 300, 301}

InitClient ==
  /\ pc = "done"
  /\ entry = "createTranslation"
  /\ req \in {r \in StoreRequests : r.userId = "u1"}
  /\ detectedSourceLang = <<>>
  /\ chunks = <<>>
  /\ translatedChunks = <<>>
  /\ calls = <<>>
  /\ ret = NoReturn
  /\ res = NoResponse
  /\ store = <<>>
  /\ nextId = 1
  /\ ops = <<>>
  /\ users = <<>>
  /\ ClientIdle

ServerVars == <<requestVars, store, nextId, ops, users>>

\* time passes
Tick ==
  /\ \E t \in TimePoints : t > now /\ now' = t
  /\ UNCHANGED <<ServerVars, authToken, user, refreshTimeoutId, timers,
                 logoutCalls, pendingEffect, setupCalls, initAuth>>

\* login, from the response of the server on: the token is stored, the
\* refresh is set up with it, the user is set
Login ==
  /\ user = "null"
  /\ Len(setupCalls) < MaxSetups
  /\ \E token \in Tokens :
       SetClient(SetUser(SetupTokenRefresh(SetAuthToken(ClientState, token),
                                           token),
                         "u1"))
  /\ UNCHANGED ServerVars

\* the effect on [user]
UserEffect ==
  /\ pendingEffect
  /\ user # "null" => Len(setupCalls) < MaxSetups
  /\ LET s == [ClientState EXCEPT !.pendingEffect = FALSE]
     IN IF user # "null" THEN SetClient(SetupTokenRefresh(s, NoToken))
        ELSE SetClient(ClearRefreshTimeout(s))
  /\ UNCHANGED ServerVars

\* the user logs out
UserLogsOut ==
  /\ user # "null"
  /\ SetClient(Logout(ClientState))
  /\ UNCHANGED ServerVars

\* a timer fires and its callback awaits refreshCallback, which awaits the
\* answer of authService.refreshToken
TimerFires ==
  /\ \E i \in 1..Len(timers) :
       /\ timers[i].st = "pending"
       /\ timers[i].due <= now
       /\ timers' = [timers EXCEPT ![i].st = "awaiting"]
  /\ UNCHANGED <<ServerVars, authToken, user, now, refreshTimeoutId,
                 logoutCalls, pendingEffect, setupCalls, initAuth>>

\* the refresh request is answered: the new token is stored, the user set
\* and the next refresh set up
RefreshSucceeds ==
  /\ Len(setupCalls) < MaxSetups
  /\ \E i \in 1..Len(timers), token \in Tokens :
       /\ timers[i].st = "awaiting"
       /\ LET s == [ClientState EXCEPT !.timers[i].st = "done"]
          IN SetClient(SetupTokenRefresh(SetUser(SetAuthToken(s, token), "u1"),
                                         NoToken))
  /\ UNCHANGED ServerVars

\* a failed refresh request whose error is swallowed: no logoutCallback
RefreshFailsSilently ==
  /\ \E i \in 1..Len(timers) :
       /\ timers[i].st = "awaiting"
       /\ SetClient([ClientState EXCEPT !.timers[i].st = "done"])
  /\ UNCHANGED ServerVars

\* the refresh request fails: the callback of the timer calls logoutCallback
RefreshFails ==
  /\ \E i \in 1..Len(timers) :
       /\ timers[i].st = "awaiting"
       /\ SetClient(Logout([ClientState EXCEPT !.timers[i].st = "done"]))
  /\ UNCHANGED ServerVars

NextClient ==
  \/ Tick
  \/ Login
  \/ UserEffect
  \/ UserLogsOut
  \/ TimerFires
  \/ RefreshSucceeds
  \/ RefreshFails

SpecClient == InitClient /\ [][NextClient]_vars

----------------------------------------------------------------------------
(* The session of the browser client from the mount of AuthProvider on:    *)
(* initAuth asks for the current user when a token is stored, the user     *)
(* logs in or signs up, API requests of the logged-in client may be        *)
(* answered 401, next to the refresh cycle of the TokenManager.            *)

\* initAuth has nothing to wait for
InitAuthDone == [st |-> "done", token |-> NoToken]
\* initAuth awaits authService.getCurrentUser(), sent with the stored token
InitAuthAwaiting(token) == [st |-> "awaiting", token |-> token]

\* initAuth up to its await: if (authService.isAuthenticated())
InitAuth(token) ==
  IF token.t # "none" THEN InitAuthAwaiting(token) ELSE InitAuthDone

\* what localStorage holds at the mount: nothing, a token with five minutes
\* left, a token with ten minutes left
StoredTokens == {NoToken, Jwt(300), Jwt(600)}

InitSession ==
  /\ pc = "done"
  /\ entry = "createTranslation"
  /\ req \in {r \in StoreRequests : r.userId = "u1"}
  /\ detectedSourceLang = <<>>
  /\ chunks = <<>>
  /\ translatedChunks = <<>>
  /\ calls = <<>>
  /\ ret = NoReturn
  /\ res = NoResponse
  /\ store = <<>>
  /\ nextId = 1
  /\ ops = <<>>
  /\ users = <<>>
  /\ authToken \in StoredTokens
  /\ user = "null"
  /\ now = 0
  /\ refreshTimeoutId = Null
  /\ timers = <<>>
  /\ logoutCalls = 0
  /\ pendingEffect = FALSE
  /\ setupCalls = <<>>
  /\ initAuth = InitAuth(authToken)

\* signup, from the response of the server on: as login, the token is
\* stored twice
Signup ==
  /\ user = "null"
  /\ Len(setupCalls) < MaxSetups
  /\ \E token \in Tokens :
       SetClient(SetUser(SetupTokenRefresh(
                           SetAuthToken(SetAuthToken(ClientState, token), token),
                           token),
                         "u1"))
  /\ UNCHANGED ServerVars

\* the server accepts the token of a request: a token that decodes and has
\* not expired
Accepted(token, time) == token.t = "jwt" /\ token.exp > time

\* getCurrentUser is answered with the user: safeSetUser(user)
GetCurrentUserSucceeds ==
  /\ initAuth.st = "awaiting"
  /\ Accepted(initAuth.token, now)
  /\ SetClient(SetUser([ClientState EXCEPT !.initAuth = InitAuthDone], "u1"))
  /\ UNCHANGED ServerVars

\* getCurrentUser fails: authService.removeAuthToken()
GetCurrentUserFails ==
  /\ initAuth.st = "awaiting"
  /\ SetClient(RemoveAuthToken([ClientState EXCEPT !.initAuth = InitAuthDone]))
  /\ UNCHANGED ServerVars

\* the response interceptor on a 401 answer to a request other than login:
\* localStorage.removeItem('auth_token'); authEvents has no listener
ResponseUnauthorized ==
  /\ user # "null"
  /\ authToken # NoToken
  /\ SetClient(RemoveAuthToken(ClientState))
  /\ UNCHANGED ServerVars

\* most calls of setupTokenRefresh in a session
MaxSessionSetups == 2

SessionSetupsLeft == Len(setupCalls) < MaxSessionSetups

SessionLogin == SessionSetupsLeft /\ Login
SessionSignup == SessionSetupsLeft /\ Signup
SessionUserEffect == (user # "null" => SessionSetupsLeft) /\ UserEffect
SessionRefreshSucceeds == SessionSetupsLeft /\ RefreshSucceeds

NextSession ==
  \/ Tick
  \/ SessionLogin
  \/ SessionSignup
  \/ GetCurrentUserSucceeds
  \/ GetCurrentUserFails
  \/ ResponseUnauthorized
  \/ SessionUserEffect
  \/ UserLogsOut
  \/ TimerFires
  \/ SessionRefreshSucceeds
  \/ RefreshFails

SpecSession == InitSession /\ [][NextSession]_vars

----------------------------------------------------------------------------
(* The accounts of the server: signup and login of the auth controller,    *)
(* the JWT strategy, and the requests behind it (/auth/me, refresh-token,  *)
(* updatePreferences, updateProfile).  A user object is a record that has  *)
(* the fields the code gives it and no others; createdAt and updatedAt are *)
(* left out.  A request is kept in ops with its body, the user the JWT     *)
(* strategy has put in req.user, its pc and its response.                  *)

\* bcrypt.hash: the hash stands for the password it was made of
HashPassword(password) == [bcrypt |-> password]
\* bcrypt.compare
ComparePasswords(inputPassword, hashedPassword) ==
  hashedPassword = HashPassword(inputPassword)

\* jwt.sign({ id: userId }, ...)
GenerateToken(userId) == [id |-> userId]

\* the object r without the field f: const { password, ...rest } = r
Omit(r, f) == [k \in DOMAIN r \ {f} |-> r[k]]
\* the fields fs of the object r
Pick(r, fs) == [k \in fs |-> r[k]]
\* { ...a, ...b }: the fields of b replace those of a, whole
Spread(a, b) ==
  [k \in DOMAIN a \cup DOMAIN b |-> IF k \in DOMAIN b THEN b[k] ELSE a[k]]
\* an object without fields
EmptyObject == <<>>

\* the preferences createUser stores
DefaultPreferences ==
  [defaultSourceLanguage |-> "en",
   defaultTargetLanguage |-> "es",
   defaultTranslationOptions |->
     [tone |-> "standard", style |-> "standard", preserveFormatting |-> TRUE]]

\* the row prisma.user.create makes in createUser
NewUser(id, userData) ==
  [id |-> id, name |-> userData.name, email |-> userData.email,
   password |-> HashPassword(userData.password),
   preferences |-> DefaultPreferences]

\* the fields the JWT strategy selects
SelectedFields == {"id", "email", "name", "preferences"}

\* prisma.user.findUnique by id and by email: the rows found
FindUserById(rows, id) == SelectSeq(rows, LAMBDA r : r.id = id)
FindUserByEmail(rows, email) == SelectSeq(rows, LAMBDA r : r.email = email)

\* prisma.user.update({ where: { id }, data }): the rows afterwards
UpdateUser(rows, id, data) ==
  [i \in 1..Len(rows) |->
     IF rows[i].id = id THEN Spread(rows[i], data) ELSE rows[i]]

\* prepareIntercomData, as far as it copies the user
PrepareIntercomData(u) == [userId |-> u.id, email |-> u.email, name |-> u.name]

\* a value a condition takes as true: a string that is not empty
Truthy(v) == v # ""
\* the body names the field f with a truthy value
Given(body, f) == f \in DOMAIN body /\ Truthy(body[f])

\* updatePreferences: updatedPreferences.defaultTranslationOptions
UpdatedTranslationOptions(options) ==
  Pick(options, {f \in {"tone", "style"} : Given(options, f)}
                  \cup ({"preserveFormatting"} \cap DOMAIN options))

\* updatePreferences: updatedPreferences
UpdatedPreferences(body) ==
  Spread(Pick(body, {f \in {"defaultSourceLanguage", "defaultTargetLanguage"} :
                       Given(body, f)}),
         IF "defaultTranslationOptions" \in DOMAIN body
         THEN [defaultTranslationOptions |->
                 UpdatedTranslationOptions(body.defaultTranslationOptions)]
         ELSE EmptyObject)

\* updatePreferences: the preferences handed to prisma.user.update
MergedPreferences(reqUser, body) ==
  Spread(reqUser.preferences, UpdatedPreferences(body))

\* updateProfile: updatedFields
UpdatedFields(body) == Pick(body, {f \in {"name", "email"} : Given(body, f)})

\* the answers of the auth controller and of the user controller
AccountError(status, message) ==
  [status |-> status, success |-> FALSE, message |-> message]
AuthAnswer(status, token, u) ==
  [status |-> status, success |-> TRUE, token |-> token, user |-> u,
   intercom |-> PrepareIntercomData(u)]
CurrentUserAnswer(u) ==
  [status |-> 200, success |-> TRUE, user |-> u,
   intercom |-> PrepareIntercomData(u)]
DataAnswer(data) == [status |-> 200, success |-> TRUE, data |-> data]

\* a request that has been answered, and one that waits at pc
AccountAnswered(kind, body, reqUser, response) ==
  [kind |-> kind, body |-> body, user |-> reqUser, pc |-> "done",
   response |-> response]
AccountAwaiting(kind, body, reqUser, at) ==
  [kind |-> kind, body |-> body, user |-> reqUser, pc |-> at,
   response |-> EmptyObject]

\* the bodies of the requests
Emails == {"ann@x.io", "bob@x.io"}
SignupBodies == [name : {"Bob", ""}, email : Emails, password : {"pw2"}]
LoginBodies == [email : Emails, password : {"pw1", "pw2"}]
PreferencesBodies ==
  {EmptyObject,
   [defaultSourceLanguage |-> "fr"],
   [defaultTargetLanguage |-> "de"],
   [defaultSourceLanguage |-> "", defaultTargetLanguage |-> "it"],
   [defaultTranslationOptions |-> [tone |-> "formal"]],
   [defaultTranslationOptions |-> [style |-> "technical"]],
   [defaultTranslationOptions |-> [preserveFormatting |-> FALSE]]}
ProfileBodies ==
  {EmptyObject, [name |-> "Anna"], [email |-> "ann@x.io"],
   [email |-> "bob@x.io"]}
NoBodies == {EmptyObject}

\* the requests behind authenticateJWT and their bodies
AuthenticatedKinds ==
  {"getCurrentUser", "refreshToken", "updatePreferences", "updateProfile"}
BodiesOf(kind) ==
  IF kind = "updatePreferences" THEN PreferencesBodies
  ELSE IF kind = "updateProfile" THEN ProfileBodies
  ELSE NoBodies

\* a database that holds the account of Ann, as signup has made it
InitAccount ==
  /\ pc = "done"
  /\ entry = "createTranslation"
  /\ req \in {r \in StoreRequests : r.userId = "u1"}
  /\ detectedSourceLang = <<>>
  /\ chunks = <<>>
  /\ translatedChunks = <<>>
  /\ calls = <<>>
  /\ ret = NoReturn
  /\ res = NoResponse
  /\ store = <<>>
  /\ nextId = 1
  /\ ops = <<>>
  /\ users = <<NewUser(1, [name |-> "Ann", email |-> "ann@x.io",
                           password |-> "pw1"])>>
  /\ ClientIdle

AccountUnchanged == UNCHANGED <<requestVars, store, nextId, clientVars>>

\* signup: validation, createUser, the answer
SignupRequest ==
  /\ Len(ops) < MaxOps
  /\ \E body \in SignupBodies :
       IF ~(Truthy(body.name) /\ Truthy(body.email) /\ Truthy(body.password))
       THEN /\ ops' = Append(ops, AccountAnswered("signup", body, EmptyObject,
                        AccountError(400, "Please provide name, email and password")))
            /\ users' = users
       ELSE IF FindUserByEmail(users, body.email) # <<>>
       THEN /\ ops' = Append(ops, AccountAnswered("signup", body, EmptyObject,
                        AccountError(400, "User with this email already exists")))
            /\ users' = users
       ELSE LET created == NewUser(Len(users) + 1, body)
                userWithoutPassword == Omit(created, "password")
            IN /\ users' = Append(users, created)
               /\ ops' = Append(ops, AccountAnswered("signup", body, EmptyObject,
                           AuthAnswer(201, GenerateToken(created.id),
                                      userWithoutPassword)))
  /\ AccountUnchanged

\* login: authenticateUser, the answer
LoginRequest ==
  /\ Len(ops) < MaxOps
  /\ \E body \in LoginBodies :
       LET found == FindUserByEmail(users, body.email)
       IN IF found = <<>> \/ ~ComparePasswords(body.password, found[1].password)
          THEN ops' = Append(ops, AccountAnswered("login", body, EmptyObject,
                        AccountError(400, "Invalid email or password")))
          ELSE ops' = Append(ops, AccountAnswered("login", body, EmptyObject,
                        AuthAnswer(200, GenerateToken(found[1].id),
                                   Omit(found[1], "password"))))
  /\ users' = users
  /\ AccountUnchanged

\* authenticateJWT for a token one of the users holds: the strategy reads
\* the user and the handler starts with it as req.user
AuthenticateJWT ==
  /\ Len(ops) < MaxOps
  /\ \E kind \in AuthenticatedKinds, i \in 1..Len(users) :
       \E body \in BodiesOf(kind) :
         LET reqUser == Pick(FindUserById(users, users[i].id)[1], SelectedFields)
             at == IF kind = "updateProfile" /\ Given(body, "email")
                   THEN "findUnique" ELSE "handler"
         IN ops' = Append(ops, AccountAwaiting(kind, body, reqUser, at))
  /\ users' = users
  /\ AccountUnchanged

\* getCurrentUser answers
GetCurrentUserAnswers ==
  /\ \E i \in 1..Len(ops) :
       /\ ops[i].kind = "getCurrentUser" /\ ops[i].pc = "handler"
       /\ ops' = [ops EXCEPT ![i].pc = "done",
                             ![i].response = CurrentUserAnswer(ops[i].user)]
  /\ users' = users
  /\ AccountUnchanged

\* refreshToken answers
RefreshTokenAnswers ==
  /\ \E i \in 1..Len(ops) :
       /\ ops[i].kind = "refreshToken" /\ ops[i].pc = "handler"
       /\ ops' = [ops EXCEPT ![i].pc = "done",
                             ![i].response =
                               AuthAnswer(200, GenerateToken(ops[i].user.id),
                                          ops[i].user)]
  /\ users' = users
  /\ AccountUnchanged

\* updatePreferences: prisma.user.update settles and the handler answers
UpdatePreferencesSettles ==
  /\ \E i \in 1..Len(ops) :
       /\ ops[i].kind = "updatePreferences" /\ ops[i].pc = "handler"
       /\ LET preferences == MergedPreferences(ops[i].user, ops[i].body)
          IN /\ users' = UpdateUser(users, ops[i].user.id,
                                    [preferences |-> preferences])
             /\ ops' = [ops EXCEPT ![i].pc = "done",
                                   ![i].response =
                                     DataAnswer(FindUserById(users', ops[i].user.id)[1]
                                                  .preferences)]
  /\ AccountUnchanged

\* updateProfile: the findUnique of the email settles
UpdateProfileFindSettles ==
  /\ \E i \in 1..Len(ops) :
       /\ ops[i].kind = "updateProfile" /\ ops[i].pc = "findUnique"
       /\ LET existingUser == FindUserByEmail(users, ops[i].body.email)
          IN IF existingUser # <<>> /\ existingUser[1].id # ops[i].user.id
             THEN ops' = [ops EXCEPT ![i].pc = "done",
                                     ![i].response =
                                       AccountError(400, "Email already in use")]
             ELSE ops' = [ops EXCEPT ![i].pc = "handler"]
  /\ users' = users
  /\ AccountUnchanged

\* updateProfile: prisma.user.update settles and the handler answers; an
\* email another row has taken in the meantime is rejected by the unique
\* index
UpdateProfileSettles ==
  /\ \E i \in 1..Len(ops) :
       /\ ops[i].kind = "updateProfile" /\ ops[i].pc = "handler"
       /\ LET updatedFields == UpdatedFields(ops[i].body)
              taken == IF "email" \in DOMAIN updatedFields
                       THEN FindUserByEmail(users, updatedFields.email)
                       ELSE <<>>
          IN IF taken # <<>> /\ taken[1].id # ops[i].user.id
             THEN /\ users' = users
                  /\ ops' = [ops EXCEPT ![i].pc = "done",
                                        ![i].response =
                                          AccountError(500, "Error updating user profile")]
             ELSE /\ users' = UpdateUser(users, ops[i].user.id, updatedFields)
                  /\ ops' = [ops EXCEPT ![i].pc = "done",
                                        ![i].response =
                                          DataAnswer(FindUserById(users', ops[i].user.id)[1])]
  /\ AccountUnchanged

NextAccount ==
  \/ SignupRequest
  \/ LoginRequest
  \/ AuthenticateJWT
  \/ GetCurrentUserAnswers
  \/ RefreshTokenAnswers
  \/ UpdatePreferencesSettles
  \/ UpdateProfileFindSettles
  \/ UpdateProfileSettles

SpecAccount == InitAccount /\ [][NextAccount]_vars

----------------------------------------------------------------------------
(* Vocabulary of the properties                                            *)

\* the completion calls of translateText, in the order they were issued
TranslateCalls == SelectSeq(calls, LAMBDA c : c.api = "translate")

\* the source language translateText is called with
CalledSourceLang ==
  IF entry = "translateText" THEN req.sourceLang ELSE detectedSourceLang

\* translateText has been called
Entered ==
  IF entry = "translateText" THEN pc # "start"
  ELSE pc \in {"direct", "chunks", "save"} \/ ret.kind # "none"

\* translateText has been called with arguments that pass its validation
EnteredValid ==
  /\ Entered
  /\ ~TranslateTextInvalid(req.sourceText, CalledSourceLang, req.targetLang)

\* translateText has settled
HasSettled == ret.kind # "none"

TextLength == Length(req.sourceText.s)

OnDirectPath == EnteredValid /\ TextLength <= TokenLimit * CharsPerToken
OnChunkedPath == EnteredValid /\ TextLength > TokenLimit * CharsPerToken

\* the output of the chunk whose call had this outcome
SegmentOf(outcome) ==
  IF outcome.st = "error" THEN ErrorMarker(outcome.message)
  ELSE Trim(outcome.content)

RECURSIVE Flatten(_)
Flatten(ss) == IF ss = <<>> THEN <<>> ELSE Head(ss) \o Flatten(Tail(ss))

----------------------------------------------------------------------------
(* C1: a call of translateText with valid arguments and a text of at most  *)
(* 9000 characters (an estimate of at most 3000 tokens) makes exactly one  *)
(* completion call, whose user message is the whole text, builds no        *)
(* chunks, and returns the trimmed response when the call succeeds; with   *)
(* 9001 characters or more the chunked path is taken instead: no call is   *)
(* made but for a chunk.                                                   *)
C1_DirectPathSingleCall ==
  /\ OnDirectPath =>
       /\ chunks = <<>>
       /\ Len(TranslateCalls) = 1
       /\ TranslateCalls[1].user = req.sourceText
       /\ (TranslateCalls[1].outcome.st = "ok"
             => ret = Return(Trim(TranslateCalls[1].outcome.content)))
       /\ (TranslateCalls[1].outcome.st = "pending" <=> pc = "direct")
  /\ OnChunkedPath =>
       /\ pc # "direct"
       /\ Len(TranslateCalls) <= Len(chunks)

\* a text of exactly 9000 characters was translated by one call whose
\* response needed trimming
C1_Witness ==
  /\ OnDirectPath
  /\ TextLength = 9000
  /\ ret.kind = "return"
  /\ TranslateCalls[1].outcome.content # ret.val

----------------------------------------------------------------------------
(* C2: on the chunked path every chunk, separators included, is at most    *)
(* 2500 characters long, unless it is a single paragraph longer than that. *)
C2_ChunkWithinLimit ==
  OnChunkedPath =>
    \A i \in 1..Len(chunks) :
      \/ Length(chunks[i]) <= ChunkLimit
      \/ Len(Split(chunks[i])) = 1

----------------------------------------------------------------------------
(* C3: on the chunked path the paragraphs of the chunks, taken in order,   *)
(* are the paragraphs of the text: none is dropped, duplicated or          *)
(* reordered.                                                              *)
C3_ChunksKeepParagraphs ==
  OnChunkedPath =>
    Flatten([i \in 1..Len(chunks) |-> Split(chunks[i])]) = Split(req.sourceText.s)

----------------------------------------------------------------------------
(* C4: on the chunked path with N >= 2 chunks, whichever chunk calls fail, *)
(* translateText returns normally, a call is made for every chunk, and the *)
(* result is the N segments joined by a blank line, segment i being the    *)
(* error marker with the failure message when the call of chunk i failed   *)
(* and the trimmed response otherwise.                                     *)
C4_ChunkFailuresIsolated ==
  (OnChunkedPath /\ Len(chunks) >= 2) =>
    /\ pc = "chunks" => InFlight # {}
    /\ pc # "chunks" =>
         /\ ret.kind = "return"
         /\ Len(TranslateCalls) = Len(chunks)
         /\ translatedChunks =
              [i \in 1..Len(chunks) |-> SegmentOf(TranslateCalls[i].outcome)]
         /\ ret.val =
              Join([i \in 1..Len(chunks) |-> SegmentOf(TranslateCalls[i].outcome)])

\* three chunks were translated, the call of the first failed and a later
\* one succeeded
C4_Witness ==
  /\ OnChunkedPath
  /\ Len(chunks) = 3
  /\ pc = "done"
  /\ Len(TranslateCalls) = 3
  /\ TranslateCalls[1].outcome.st = "error"
  /\ TranslateCalls[3].outcome.st = "ok"
  /\ ret.kind = "return"

----------------------------------------------------------------------------
(* C5: on the chunked path with N >= 2 chunks, output segment i is the     *)
(* result of the call whose user message was chunk i, and the returned     *)
(* string is the segments joined by a blank line in chunk order.           *)
C5_OutputFollowsChunkOrder ==
  (OnChunkedPath /\ Len(chunks) >= 2) =>
    /\ Len(translatedChunks) <= Len(TranslateCalls)
    /\ \A i \in 1..Len(translatedChunks) :
         /\ TranslateCalls[i].user = Str(chunks[i])
         /\ TranslateCalls[i].outcome.st # "pending"
         /\ translatedChunks[i] = _translateChunk(TranslateCalls[i].outcome).val
    /\ HasSettled =>
         /\ Len(translatedChunks) = Len(chunks)
         /\ ret.val = Join(translatedChunks)

\* two chunks or more were translated and the first two outputs differ
C5_Witness ==
  /\ OnChunkedPath
  /\ Len(chunks) >= 2
  /\ HasSettled
  /\ ret.kind = "return"
  /\ translatedChunks[1] # translatedChunks[2]

----------------------------------------------------------------------------
(* C6: during a chunked translation at most one completion call is in      *)
(* flight, the call of chunk i+1 is issued only after the call of chunk i  *)
(* has settled, and calls are issued in increasing chunk order.            *)
C6_ChunkCallsSequential ==
  OnChunkedPath =>
    /\ Cardinality(InFlight) <= 1
    /\ Len(TranslateCalls) <= Len(chunks)
    /\ \A i \in 1..Len(TranslateCalls) :
         /\ TranslateCalls[i].user = Str(chunks[i])
         /\ (i < Len(TranslateCalls) => TranslateCalls[i].outcome.st # "pending")

\* the call of the second chunk is in flight after the first one failed
C6_Witness ==
  /\ OnChunkedPath
  /\ pc = "chunks"
  /\ Len(TranslateCalls) = 2
  /\ TranslateCalls[1].outcome.st = "error"
  /\ TranslateCalls[2].outcome.st = "pending"

----------------------------------------------------------------------------
(* C7: no call is retried: the direct path issues at most one completion   *)
(* call and the chunked path exactly one per chunk, whether the calls      *)
(* succeed or fail.                                                        *)
C7_NoRetry ==
  /\ Len(TranslateCalls) <= IF chunks = <<>> THEN 1 ELSE Len(chunks)
  /\ (OnDirectPath /\ HasSettled) => Len(TranslateCalls) = 1
  /\ (OnChunkedPath /\ HasSettled) => Len(TranslateCalls) = Len(chunks)

\* a chunked translation has ended after a failed call
C7_Witness ==
  /\ OnChunkedPath
  /\ HasSettled
  /\ Len(chunks) >= 2
  /\ \E i \in 1..Len(TranslateCalls) : TranslateCalls[i].outcome.st = "error"

----------------------------------------------------------------------------
(* C8 as stated: a text of two paragraphs of 1500 characters separated by  *)
(* a blank line gives exactly 2 chunks and 2 calls, and the result is the  *)
(* two translated chunks joined by a blank line.                           *)
TwoParagraphs == <<Run("x", 1500), Run(NL, 2), Run("x", 1500)>>

C8_TwoChunksAsStated ==
  (EnteredValid /\ req.sourceText = Str(TwoParagraphs) /\ ret.kind = "return") =>
    /\ Len(chunks) = 2
    /\ Len(TranslateCalls) = 2
    /\ ret.val = Join(<<SegmentOf(TranslateCalls[1].outcome),
                        SegmentOf(TranslateCalls[2].outcome)>>)

(* C8 amended: that text is 3002 characters long, an estimate of 1001      *)
(* tokens, so translateText takes the direct path: it builds no chunk,     *)
(* makes exactly one call, whose user message is the whole text, and       *)
(* returns that call's trimmed response.                                   *)
C8_TwoParagraphsDirect ==
  (EnteredValid /\ req.sourceText = Str(TwoParagraphs)) =>
    /\ chunks = <<>>
    /\ translatedChunks = <<>>
    /\ Len(TranslateCalls) = 1
    /\ TranslateCalls[1].user = Str(TwoParagraphs)
    /\ (ret.kind = "return"
          => ret.val = Trim(TranslateCalls[1].outcome.content))

\* the two-paragraph text was translated through createTranslation
C8_Witness ==
  /\ EnteredValid
  /\ entry = "createTranslation"
  /\ req.sourceText = Str(TwoParagraphs)
  /\ ret.kind = "return"
  /\ pc = "done"

----------------------------------------------------------------------------
(* C9: when createTranslation is called without a source language and the  *)
(* detection call fails, the request fails with the detection error, no    *)
(* completion call is issued and no record is stored.                      *)
DetectionFailed ==
  /\ entry = "createTranslation"
  /\ req.sourceLang = <<>>
  /\ \E i \in 1..Len(calls) :
       calls[i].api = "detect" /\ calls[i].outcome.st = "error"

C9_DetectionFailureIsFatal ==
  DetectionFailed =>
    /\ pc = "done"
    /\ res.status = 400
    /\ res.success = FALSE
    /\ res.message =
         "Source language is required and could not be automatically detected"
    /\ TranslateCalls = <<>>
    /\ ret.kind = "none"
    /\ store = <<>>

\* detection failed for a request that names a target language
C9_Witness ==
  /\ DetectionFailed
  /\ req.targetLang # <<>>
  /\ pc = "done"

----------------------------------------------------------------------------
(* C10: a request with an empty text or without a target language makes no *)
(* external call, detection or completion, also when the source language   *)
(* is missing too.                                                         *)
C10_InvalidInputMakesNoCall ==
  (Falsy(req.sourceText) \/ req.targetLang = <<>>) => calls = <<>>

----------------------------------------------------------------------------
(* C11: invalid input to translateText (an empty or non-string text, a     *)
(* missing source or target language) is reported as a validation failure: *)
(* the error raised carries the validation message, not the generic        *)
(* message of an unclassified external failure.                            *)
GenericFailureMessage == "Translation failed. Please try again."

EnteredInvalid ==
  /\ Entered
  /\ TranslateTextInvalid(req.sourceText, CalledSourceLang, req.targetLang)

C11_ValidationFailureKeepsMessage ==
  EnteredInvalid =>
    /\ ret.kind = "throw"
    /\ ret.message = ValidationError(req.sourceText).message
    /\ ret.message # GenericFailureMessage

----------------------------------------------------------------------------
(* C12: on the direct path a rejected completion call makes translateText  *)
(* throw (it returns nothing, and createTranslation answers 500 with the   *)
(* thrown message and stores nothing); the message depends on the status   *)
(* of the error's response alone: 429, 401 and 500 have a message each,    *)
(* every other status and an error without a response give the generic     *)
(* message, and the four messages are pairwise distinct.                   *)
MessageOfStatus(status) ==
  IF status = 429 THEN "Rate limit exceeded. Please try again later."
  ELSE IF status = 401 THEN "Authentication error. Please check your API key."
  ELSE IF status = 500 THEN "OpenAI service error. Please try again later."
  ELSE GenericFailureMessage

\* the direct call was rejected
DirectCallFailed ==
  /\ OnDirectPath
  /\ TranslateCalls # <<>>
  /\ TranslateCalls[1].outcome.st = "error"

C12_DirectFailureClassified ==
  /\ Cardinality({MessageOfStatus(st) : st \in {429, 401, 500, 503}}) = 4
  /\ DirectCallFailed =>
       /\ ret.kind = "throw"
       /\ ret.message = MessageOfStatus(TranslateCalls[1].outcome.status)
       /\ store = <<>>
       /\ pc = "done"
       /\ entry = "createTranslation" =>
            /\ res.status = 500
            /\ ~res.success
            /\ res.message = ret.message
            /\ res.data = NoData

C12_Witness ==
  /\ DirectCallFailed
  /\ entry = "createTranslation"
  /\ TranslateCalls[1].outcome.status = 401
  /\ res.status = 500

----------------------------------------------------------------------------
(* C13: when createTranslation is called with an empty source language and *)
(* the detection succeeds, exactly one detection call is made, it has      *)
(* settled before any completion call of the translation is issued, and    *)
(* the detected code (the trimmed, lower-cased answer) is the source        *)
(* language of every translation call and of the stored record.            *)
DetectCallIndexes == {i \in 1..Len(calls) : calls[i].api = "detect"}

DetectionSucceeded ==
  /\ entry = "createTranslation"
  /\ req.sourceLang = <<>>
  /\ \E i \in DetectCallIndexes : calls[i].outcome.st = "ok"

DetectedCode == ToLowerCase(Trim(calls[1].outcome.content))

\* no translation call is in the log while the detection has not succeeded
DetectionSettlesFirst ==
  (entry = "createTranslation" /\ req.sourceLang = <<>> /\ TranslateCalls # <<>>)
    => DetectionSucceeded

C13_DetectedLanguageUsed ==
  /\ DetectionSettlesFirst
  /\ DetectionSucceeded =>
       /\ DetectCallIndexes = {1}
       /\ \A i \in 2..Len(calls) :
            /\ calls[i].api = "translate"
            /\ calls[i].sourceLang = DetectedCode
       /\ \A i \in 1..Len(store) : store[i].sourceLang = DetectedCode
       /\ res.status = 201 => res.data.sourceLang = DetectedCode

C13_Witness ==
  /\ DetectionSucceeded
  /\ calls[1].outcome.content # DetectedCode
  /\ Len(TranslateCalls) >= 2
  /\ res.status = 201
  /\ Len(store) = 1

----------------------------------------------------------------------------
(* C17: the model parameters of every completion call of a translation     *)
(* (the direct call and every chunk call) depend on options.style alone:   *)
(* 'detailed' gives temperature 0.4 and 3000 tokens, 'simplified' 0.2 and  *)
(* 1500, every other or missing style 0.3 and 2000, whatever the tone, the *)
(* formatting flag, the languages and the text are.                        *)

\* the options translateText is called with
CalledOptions ==
  IF entry = "translateText" THEN OptionsOrEmpty(req.options)
  ELSE TranslationOptions(req.options)

CalledStyle == OptionString(CalledOptions, "style")
CalledTone == OptionString(CalledOptions, "tone")

C17_ParametersFollowStyle ==
  \A i \in 1..Len(TranslateCalls) :
    LET p == TranslateCalls[i].params
    IN /\ p.model = "gpt-4"
       /\ CalledStyle = "detailed" => p.temperature = 4 /\ p.maxTokens = 3000
       /\ CalledStyle = "simplified" => p.temperature = 2 /\ p.maxTokens = 1500
       /\ CalledStyle \notin {"detailed", "simplified"}
            => p.temperature = 3 /\ p.maxTokens = 2000

\* two chunk calls of a formal, detailed translation
C17_Witness ==
  /\ Len(TranslateCalls) = 2
  /\ CalledStyle = "detailed"
  /\ CalledTone = "formal"
  /\ TranslateCalls[2].params.maxTokens = 3000

----------------------------------------------------------------------------
(* C18 as stated: the system instruction of every completion call is the   *)
(* base instruction, then a tone clause (formal, informal, casual,         *)
(* professional, and the neutral clause for any other tone), then a style  *)
(* clause (simplified, detailed, and the standard clause otherwise), then  *)
(* the formatting clause exactly when preserveFormatting is true, then the *)
(* language hint exactly when the target is es, fr, de, ja or zh.          *)
HintOf(targetLang) ==
  IF \E c \in HintedLanguages : targetLang = Word(c)
  THEN LangInstructions(targetLang[1].c) ELSE <<>>

FormattingOf(options) ==
  IF PreserveFormatting(options) THEN FormattingClause ELSE <<>>

----------------------------------------------------------------------------
(* Vocabulary of the properties of the store                               *)

Ids(rows) == {rows[i].id : i \in 1..Len(rows)}
Row(rows, id) == FindUnique(rows, id)[1]

\* request i answers 200 in this step, after its update or delete
SettlesOk(i, kind) ==
  /\ ops[i].kind = kind
  /\ ops[i].pc = "await"
  /\ ops'[i].pc = "done"
  /\ ops'[i].res.status = 200

\* the requests that arrive in this step
Arriving == {i \in 1..Len(ops') : i > Len(ops)}

----------------------------------------------------------------------------
(* C14: under any interleaving of createTranslation, toggleFavorite and    *)
(* deleteTranslation requests of several users, no step changes the owner  *)
(* of a record, a record leaves the store only in the delete of a          *)
(* deleteTranslation request of its owner, its favorite flag changes only  *)
(* in the update of a toggleFavorite request of its owner, and a request   *)
(* of toggleFavorite or deleteTranslation for a record of another user     *)
(* answers 403 and leaves the store unchanged.                             *)
OwnerOnlyStep ==
  /\ \A id \in Ids(store) \cap Ids(store') :
       /\ Row(store', id).userId = Row(store, id).userId
       /\ Row(store', id).isFavorite # Row(store, id).isFavorite =>
            \E i \in 1..Len(ops) :
              /\ SettlesOk(i, "toggleFavorite")
              /\ ops[i].id = id
              /\ ops[i].userId = Row(store, id).userId
  /\ \A id \in Ids(store) \ Ids(store') :
       \E i \in 1..Len(ops) :
         /\ SettlesOk(i, "deleteTranslation")
         /\ ops[i].id = id
         /\ ops[i].userId = Row(store, id).userId
  /\ \A i \in Arriving :
       (/\ ops'[i].id \in Ids(store)
        /\ Row(store, ops'[i].id).userId # ops'[i].userId) =>
         /\ ops'[i].pc = "done"
         /\ ops'[i].res.status = 403
         /\ store' = store

C14_OnlyTheOwnerChangesARecord == [][OwnerOnlyStep]_vars

\* a deleteTranslation request of another user was refused and the owner has
\* toggled the same record, next to a second record
C14_Witness ==
  /\ Len(ops) = 2
  /\ \E i, j \in 1..Len(ops) :
       /\ ops[i].kind = "deleteTranslation" /\ ops[i].res.status = 403
       /\ ops[j].kind = "toggleFavorite" /\ ops[j].res.status = 200
       /\ ops[j].id = ops[i].id
       /\ ops[j].userId # ops[i].userId
       /\ ops[j].id \in Ids(store)
       /\ Row(store, ops[j].id).isFavorite
  /\ Len(store) = 2

----------------------------------------------------------------------------
(* C15 as stated: whenever createTranslation has answered with success and *)
(* a translated text, a record with that source text, translated text,     *)
(* languages and options, owned by the requester, is in the store and in   *)
(* the requester's getTranslations listing, unless its owner has deleted   *)
(* it.                                                                     *)

\* createTranslation has answered with success
AnsweredSuccess == entry = "createTranslation" /\ pc = "done" /\ res.success

\* the row is what the request asked to translate and what was answered
RowOfRequest(row) ==
  /\ row.userId = req.userId
  /\ row.sourceText = req.sourceText.s
  /\ row.translatedText = res.data.translatedText
  /\ row.sourceLang = res.data.sourceLang
  /\ row.targetLang = req.targetLang
  /\ row.options = TranslationOptions(req.options)

\* the row is on a page of the getTranslations listing of its owner
Listed(row) ==
  \E p \in 1..Ceil(Count(store, row.userId, FALSE), DefaultLimit) :
    LET page == FindMany(store, row.userId, FALSE, (p - 1) * DefaultLimit,
                         DefaultLimit)
    IN \E k \in 1..Len(page) : page[k] = row

\* a deleteTranslation request of the user has removed a record
HasDeleted(userId) ==
  \E i \in 1..Len(ops) :
    /\ ops[i].kind = "deleteTranslation"
    /\ ops[i].userId = userId
    /\ ops[i].pc = "done"
    /\ ops[i].res.status = 200

C15_SuccessMeansStored ==
  AnsweredSuccess =>
    \/ \E i \in 1..Len(store) : RowOfRequest(store[i]) /\ Listed(store[i])
    \/ HasDeleted(req.userId)

(* C15 amended: the record is there whenever createTranslation has         *)
(* answered 201: it was stored with isFavorite false in the step that      *)
(* answered, and it stays in the store and in its owner's listing until a  *)
(* deleteTranslation request of its owner removes it.  When the store      *)
(* rejects the record, createTranslation answers 200 with success, the     *)
(* translated text, _dbSaveFailed and a warning, and nothing is stored.    *)

\* the owner has deleted the record with this id
DeletedByOwner(id, userId) ==
  \E i \in 1..Len(ops) :
    /\ ops[i].kind = "deleteTranslation"
    /\ ops[i].id = id
    /\ ops[i].userId = userId
    /\ ops[i].pc = "done"
    /\ ops[i].res.status = 200

CreatedIsStored ==
  (AnsweredSuccess /\ res.status = 201) =>
    \/ /\ res.data.id \in Ids(store)
       /\ RowOfRequest(Row(store, res.data.id))
       /\ Listed(Row(store, res.data.id))
    \/ DeletedByOwner(res.data.id, req.userId)

\* the step in which createTranslation answers with success
AnswerStep ==
  (pc = "save" /\ pc' = "done") =>
    IF res'.status = 201
    THEN /\ res'.data.id \notin Ids(store)
         /\ store' = Append(store, res'.data)
         /\ ~res'.data.isFavorite
         /\ res'.warning = ""
    ELSE /\ res'.status = 200
         /\ res'.success
         /\ res'.data.dbSaveFailed
         /\ res'.data.translatedText = ret.val
         /\ res'.warning # ""
         /\ store' = store

C15_CreatedMeansStored == []CreatedIsStored /\ [][AnswerStep]_vars

\* the latest record was stored and then marked favorite by its owner, who
\* has deleted an older one
C15_Witness ==
  /\ AnsweredSuccess
  /\ res.status = 201
  /\ res.data.id \in Ids(store)
  /\ Row(store, res.data.id).isFavorite
  /\ \E id \in RecordIds : id # res.data.id /\ DeletedByOwner(id, req.userId)

----------------------------------------------------------------------------
(* C16 as stated: for a store that does not change, getTranslations (and   *)
(* getFavorites, on the favorite records) with page p and limit L returns  *)
(* only records of the requester, newest first, those at the positions     *)
(* (p-1)*L+1 .. p*L of that order, with totalPages = ceil(total/L), so     *)
(* that the pages 1..totalPages hold each record of the user exactly once; *)
(* a missing, zero or non-numeric page or limit counts as page 1, limit 10.*)

\* the records of the user a listing is about, newest first
NewestFirst(userId, favoritesOnly) ==
  LET mine == {i \in 1..Len(store) :
                 /\ store[i].userId = userId
                 /\ favoritesOnly => store[i].isFavorite}
      pos(k) == CHOOSE i \in mine : Cardinality({j \in mine : j > i}) = k - 1
  IN [k \in 1..Cardinality(mine) |-> store[pos(k)]]

\* the positions lo..hi of a sequence, as far as it goes
Positions(rows, lo, hi) ==
  [k \in 1..(IF Len(rows) < lo THEN 0
              ELSE (IF hi < Len(rows) THEN hi ELSE Len(rows)) - lo + 1)
     |-> rows[lo + k - 1]]

\* a value made of digits only counts as its number, every other as d
NumericOr(v, d) ==
  IF v.t = "undefined" THEN d
  ELSE IF v.s = <<>> \/ \E i \in 1..Len(v.s) : ~IsDigit(v.s[i]) THEN d
  ELSE IF DecimalValue(v.s) = 0 THEN d
  ELSE DecimalValue(v.s)

\* a value that starts (after white space) with digits counts as the number
\* these digits make, every other as d
LeadingNumberOr(v, d) ==
  IF v.t = "undefined" THEN d
  ELSE LET ds == LeadingDigits(SkipLeadingSpace(v.s))
       IN IF ds = <<>> THEN d
          ELSE IF DecimalValue(ds) = 0 THEN d
          ELSE DecimalValue(ds)

IsFavoritesListing(o) == o.kind = "getFavorites"

\* the answer of the listing o is the page p of limit L of the requester's
\* records, and the pages of limit L hold each of them exactly once
AnswersPage(o, p, L) ==
  LET all == NewestFirst(o.userId, IsFavoritesListing(o))
      pages == [q \in 1..Ceil(Len(all), L) |->
                  FindMany(store, o.userId, IsFavoritesListing(o), (q - 1) * L, L)]
  IN /\ o.res.status = 200
     /\ o.res.data = Positions(all, (p - 1) * L + 1, p * L)
     /\ o.res.count = Len(o.res.data)
     /\ o.res.currentPage = p
     /\ o.res.totalPages = Ceil(Len(all), L)
     /\ \A k \in 1..Len(o.res.data) : o.res.data[k].userId = o.userId
     /\ Flatten(pages) = all

----------------------------------------------------------------------------
(* C19: the update of a toggleFavorite request of the owner flips          *)
(* isFavorite of the record addressed and leaves every other field of that *)
(* record and every other record as they are; the steps of                 *)
(* createTranslation and deleteTranslation change no field of a record     *)
(* that stays in the store.                                                *)
TogglesSettling == {i \in 1..Len(ops) : SettlesOk(i, "toggleFavorite")}

FrameStep ==
  /\ \A i \in TogglesSettling :
       /\ Ids(store') = Ids(store)
       /\ \A id \in Ids(store) :
            Row(store', id) =
              IF id = ops[i].id
              THEN [Row(store, id) EXCEPT !.isFavorite = ~Row(store, id).isFavorite]
              ELSE Row(store, id)
  /\ TogglesSettling = {} =>
       \A id \in Ids(store) \cap Ids(store') : Row(store', id) = Row(store, id)

C19_ToggleFlipsOnlyTheFlag == [][FrameStep]_vars

----------------------------------------------------------------------------
(* C20: a call of setupTokenRefresh with a token that decodes and has more *)
(* than 5 minutes left leaves exactly one refresh scheduled, due 5 minutes *)
(* before the expiry of the token, and does not log out; with 5 minutes or *)
(* less left, or with a token that does not decode, it calls the logout    *)
(* callback at once and leaves nothing scheduled; without a token it does  *)
(* neither.                                                                *)

\* the timers that are scheduled and have not fired
Scheduled(ts) == {i \in 1..Len(ts) : ts[i].st = "pending"}

\* the step holds a call of setupTokenRefresh
SetupCalled == Len(setupCalls') = Len(setupCalls) + 1

LastSetup == setupCalls'[Len(setupCalls')]

FiveMinutes == 5 * 60

SetupStep ==
  SetupCalled =>
    IF LastSetup.token.t = "none"
    THEN /\ logoutCalls' = logoutCalls
         /\ Scheduled(timers') = {}
         /\ Len(timers') = Len(timers)
    ELSE IF /\ LastSetup.token.t = "jwt"
            /\ LastSetup.token.exp - LastSetup.now > FiveMinutes
    THEN /\ logoutCalls' = logoutCalls
         /\ Cardinality(Scheduled(timers')) = 1
         /\ \A i \in Scheduled(timers') :
              timers'[i].due = LastSetup.token.exp - FiveMinutes
    ELSE /\ logoutCalls' = logoutCalls + 1
         /\ Scheduled(timers') = {}
         /\ Len(timers') = Len(timers)

C20_RefreshFiveMinutesBeforeExpiry == [][SetupStep]_vars

----------------------------------------------------------------------------
(* C21: when the translation has succeeded, the step in which              *)
(* prisma.translation.create settles either stores the record and answers  *)
(* 201 with it, or leaves the store as it was and answers 200 with success *)
(* true, the translated text, the flag _dbSaveFailed and a warning: a      *)
(* failed save is never answered as an error and stores nothing.           *)

\* the step holds the answer of createTranslation after its save
SaveAnswered == pc = "save" /\ pc' = "done"

SaveStep ==
  SaveAnswered =>
    /\ ret.kind = "return"
    /\ res'.success
    /\ IF res'.status = 201
       THEN store' = Append(store, res'.data)
       ELSE /\ res'.status = 200
            /\ res'.data.translatedText = ret.val
            /\ res'.data.dbSaveFailed
            /\ res'.warning # ""
            /\ store' = store

C21_FailedSaveStillAnswersSuccess == [][SaveStep]_vars

\* a save has failed next to a record stored before: the answer is 200
\* with the warning and the store still holds that one record
C21_Witness ==
  /\ entry = "createTranslation"
  /\ pc = "done"
  /\ res.status = 200
  /\ res.warning # ""
  /\ res.data.dbSaveFailed
  /\ Len(store) = 1
  /\ nextId = 2

----------------------------------------------------------------------------
(* C22: toggleFavorite requests are atomic with respect to each other: in  *)
(* every state the favorite flag of a stored record is its initial value   *)
(* (false) flipped once for every toggleFavorite request on it that has    *)
(* completed with 200, whatever the interleaving of their lookups and      *)
(* updates.                                                                *)

\* the toggleFavorite requests on record id that have answered 200
CompletedToggles(id) ==
  {i \in 1..Len(ops) : /\ ops[i].kind = "toggleFavorite"
                       /\ ops[i].id = id
                       /\ ops[i].pc = "done"
                       /\ ops[i].res.status = 200}

\* false flipped k times
Flipped(k) == k % 2 = 1

C22_TogglesAreAtomic ==
  \A id \in Ids(store) :
    Row(store, id).isFavorite = Flipped(Cardinality(CompletedToggles(id)))

----------------------------------------------------------------------------
(* C23: a toggleFavorite or deleteTranslation request that answers while   *)
(* the record it addresses is not in the store answers 404 'Translation    *)
(* not found', also when a concurrent deleteTranslation has removed the    *)
(* record between the request's lookup and its update or delete; no        *)
(* request is answered 500.                                                *)

\* the requests that answer in this step
Answering ==
  {i \in 1..Len(ops') :
     /\ ops'[i].pc = "done"
     /\ i \in 1..Len(ops) => ops[i].pc = "await"}

MissingRecordStep ==
  \A i \in Answering :
    /\ ops'[i].id \notin Ids(store) =>
         /\ ops'[i].res.status = 404
         /\ ops'[i].res.message = "Translation not found"
    /\ ops'[i].res.status # 500

C23_MissingRecordAnswers404 == [][MissingRecordStep]_vars

----------------------------------------------------------------------------
(* The session of the client                                               *)

\* the client is logged out: no user, no stored token, no pending timer
LoggedOut == user = "null" /\ authToken = NoToken /\ Scheduled(timers) = {}

\* the answer of a refresh request arrives in the step
RefreshAnswered ==
  \E i \in 1..Len(timers) : timers[i].st = "awaiting" /\ timers'[i].st = "done"

\* the step is a login or a signup
LoginStep == user = "null" /\ SetupCalled /\ ~RefreshAnswered

\* logout has run and no login or signup since
AfterLogout == user = "null" /\ logoutCalls > 0

LogoutStep ==
  /\ logoutCalls' # logoutCalls /\ ~LoginStep => LoggedOut'
  /\ AfterLogout /\ ~LoginStep => LoggedOut'

\* C24: after logout and until the next login or signup the client stays
\* logged out (no user, no stored token, no pending refresh timer), also
\* when the answer of a refresh request or of the getCurrentUser request
\* that was in flight at the logout arrives afterwards.
C24_StaysLoggedOutAfterLogout == [][LogoutStep]_vars

\* C25: in every state of the client a user that is set (isAuthenticated)
\* implies a stored auth token: after login and signup, also with a token of
\* five minutes or less of lifetime, after a refresh and after a 401 answer.
C25_UserImpliesStoredToken == user # "null" => authToken # NoToken

TimerStep ==
  /\ Cardinality(Scheduled(timers')) <= 1
  /\ user' = "null" => Scheduled(timers') = {}
  /\ SetupCalled => Scheduled(timers') \cap (1..Len(timers)) = {}

\* C26: at every moment at most one refresh timer is pending: every
\* setupTokenRefresh cancels the timer scheduled before, over any sequence
\* of login, signup, refresh, user effect and logout, and no timer is
\* pending while user is null.
C26_AtMostOnePendingTimer == [][TimerStep]_vars

\* the user effect after a login has replaced the timer of the login
C26_Witness ==
  /\ user # "null"
  /\ Len(setupCalls) = 2
  /\ Len(timers) = 2
  /\ timers[1].st = "cleared"
  /\ timers[2].st = "pending"
  /\ refreshTimeoutId = 2

\* a refresh request fails in the step: it is answered and no refresh is
\* set up
RefreshFailed == RefreshAnswered /\ ~SetupCalled

FailedRefreshStep ==
  RefreshFailed => logoutCalls' = logoutCalls + 1 /\ LoggedOut'

\* C27: when the scheduled refresh request fails the logout callback runs
\* and the client ends logged out: user is null, the stored token is
\* removed and no refresh timer is pending.
C27_FailedRefreshLogsOut == [][FailedRefreshStep]_vars

\* the refresh of a ten-minute token has failed and logged the user out
C27_Witness ==
  /\ Len(setupCalls) = 1
  /\ setupCalls[1].token = Jwt(600)
  /\ Len(timers) = 1
  /\ timers[1].st = "done"
  /\ logoutCalls = 1
  /\ LoggedOut

----------------------------------------------------------------------------
(* The accounts                                                            *)

\* the object has a password field
HasPassword(o) == "password" \in DOMAIN o

\* the response carries a user object with the password field
Leaks(response) ==
  \/ "user" \in DOMAIN response /\ HasPassword(response.user)
  \/ "data" \in DOMAIN response /\ HasPassword(response.data)
  \/ "intercom" \in DOMAIN response /\ HasPassword(response.intercom)

\* C28: no response contains the stored password hash: the user object
\* that signup, login, /auth/me, refresh-token, updatePreferences and
\* updateProfile answer with has no password field, for any sequence of
\* requests.
C28_NoPasswordInResponses ==
  \A i \in 1..Len(ops) : ops[i].pc = "done" => ~Leaks(ops[i].response)

\* the stored preferences of a user
StoredPreferences(rows, id) == FindUserById(rows, id)[1].preferences

\* the preferences with the fields the request names replaced and every
\* other field, nested ones too, as stored
NamedFieldsReplaced(stored, body) ==
  LET named == UpdatedPreferences(body)
  IN [k \in DOMAIN stored \cup DOMAIN named |->
        IF k \notin DOMAIN named THEN stored[k]
        ELSE IF k = "defaultTranslationOptions" /\ k \in DOMAIN stored
        THEN Spread(stored[k], named[k])
        ELSE named[k]]

\* request i is an updatePreferences that is answered 200 in the step
PreferencesUpdated(i) ==
  /\ ops[i].kind = "updatePreferences"
  /\ ops[i].pc = "handler"
  /\ ops'[i].pc = "done"
  /\ ops'[i].response.status = 200

PreferencesStep ==
  \A i \in 1..Len(ops) :
    PreferencesUpdated(i) =>
      /\ StoredPreferences(users', ops[i].user.id) =
           NamedFieldsReplaced(StoredPreferences(users, ops[i].user.id),
                               ops[i].body)
      /\ \A j \in 1..Len(users) :
           users[j].id # ops[i].user.id => users'[j] = users[j]

\* C29: updatePreferences changes the preference fields the request names
\* and leaves every other stored preference as it is: top-level fields not
\* given, nested defaultTranslationOptions fields not given, and the fields
\* another updatePreferences request of the user has written meanwhile.
C29_UpdatePreferencesFrame == [][PreferencesStep]_vars

====
